---- MODULE Spec2Model ----
(***************************************************************************)
(* startall (src/index.js): the process supervisor, the bounded output     *)
(* log, the one-off command overlay and the per-pane line filter of the    *)
(* ProcessManager class, as a state machine over the Node event loop.      *)
(*                                                                         *)
(* Every handler of the event loop (a key press, a timer callback, a       *)
(* stream 'data' event, a child 'exit' event, a signal handler) runs to    *)
(* completion and is one action.                                           *)
(*                                                                         *)
(* Text is a sequence of tokens: a token is one character ("x", " ",      *)
(* "\n", ...) or, for the fixed messages the program writes itself, the    *)
(* whole phrase ("Process stopped").                                       *)
(***************************************************************************)
EXTENDS Integers, Sequences, FiniteSets, TLC

\* ------------------------------------------------------------------ bounds
\* processes spawned in one run (supervised and one-off together)
MaxProcs == 2
\* process-output lines accepted into the main log in one run
MaxLines == 2
\* characters in one 'data' chunk
MaxChunk == 2
\* lines of one-off output kept in the overlay before data stops arriving
MaxOverlayLines == 1
\* appends made to the log on its own
MaxAppends == 4
\* this.maxOutputLines, the capacity of the log (1000 in the source), scaled
maxOutputLines == 2
\* characters of a plain text handed to lineHasColor
MaxPlain == 4
\* attributes in one SGR sequence handed to lineHasColor
MaxAttrs == 3
\* panes created while a tree is grown by splitPane and closePane calls
MaxPanes == 4
\* panes created in one run of the running screen
MaxUiPanes == 3
\* characters typed into one include / ignore pattern
MaxPattern == 1
\* patterns in the config when one more can be typed in
MaxPatterns == 1
\* characters typed into the input line, a pane name or a pane filter
MaxTyped == 1

\* ------------------------------------------------------- program constants
COUNTDOWN_SECONDS == 10

\* the manifest: parseNpmScripts(package.json), in manifest order
AllScripts == <<"web", "api">>

Names == {AllScripts[i] : i \in 1..Len(AllScripts)}

\* loadConfig(): no config file (the default), and a saved config whose
\* default selection names a script that its ignore list hides
Configs == {[ignore |-> {}, defaultSelection |-> {}],
            [ignore |-> {"api"}, defaultSelection |-> {"api"}]}

\* characters a child process writes
Chars == {"x", "\n"}

\* characters typed into an include / ignore pattern
PatternChars == {"w", "*"}

\* keys offered to the settings screen as shortcuts: one that is also a
\* built-in command of the running screen, and one that is not
ShortcutKeys == {"q", "z"}

VARIABLES
    phase,                \* this.phase: "selection" | "running"
    scripts,              \* this.scripts: the visible scripts, in manifest order
    selectedScripts,      \* this.selectedScripts
    selectedIndex,        \* this.selectedIndex (0-based)
    countdown,            \* this.countdown
    countdownInterval,    \* TRUE while the setInterval of startCountdown is armed
    processes,            \* this.processes: name -> RunState
    processRefs,          \* this.processRefs: name -> pid of the handle, 0 = no entry
    outputLines,          \* this.outputLines
    totalLinesReceived,   \* this.totalLinesReceived
    isPaused,             \* this.isPaused
    destroyed,            \* this.destroyed
    showCommandOverlay,   \* this.showCommandOverlay
    commandOverlayOutput, \* this.commandOverlayOutput
    commandOverlayScript, \* this.commandOverlayScript
    commandOverlayStatus, \* this.commandOverlayStatus
    commandOverlayProcess,\* this.commandOverlayProcess: pid of the handle, 0 = null
    showRunCommandModal,  \* this.showRunCommandModal
    runCommandModalIndex, \* this.runCommandModalIndex (0-based)
    procs,                \* the child processes spawned so far; the pid is the index
    restartTimers,        \* name -> pending setTimeout callbacks of restartProcess
    nodeExited,           \* TRUE after process.exit()
    history,              \* every (process, text) handed to addOutputLine by LogAppend
    pane,                 \* the pane handed to getOutputLinesForPane
    paneLines,            \* what getOutputLinesForPane returned for it
    paneRoot,             \* this.paneRoot: the pane tree, NullNode before running
    focusedPaneId,        \* this.focusedPaneId: the n of `pane-n`, 0 = null / undefined
    paneIdCounter,        \* paneIdCounter of generatePaneId
    paneLayout,           \* this.config.paneLayout, NullNode when absent
    isFilterMode,         \* this.isFilterMode
    isNamingMode,         \* this.isNamingMode
    namingModeText,       \* this.namingModeText
    isInputMode,          \* this.isInputMode
    inputModeText,        \* this.inputModeText
    showSplitMenu,        \* this.showSplitMenu (the command palette)
    splitMenuIndex,       \* this.splitMenuIndex (0-based)
    previousPhase,        \* this.previousPhase
    settingsSection,      \* this.settingsSection
    settingsIndex,        \* this.settingsIndex (0-based)
    isAddingPattern,      \* this.isAddingPattern
    newPatternText,       \* this.newPatternText
    isAssigningShortcut,  \* this.isAssigningShortcut
    shortcutScriptName,   \* this.shortcutScriptName
    ignore,               \* this.config.ignore, <<>> also when the key is absent
    include,              \* this.config.include: [defined, patterns]
    shortcuts,            \* this.config.shortcuts: its [key, script] entries, in order
    showLineNumbers,      \* this.showLineNumbers
    showTimestamps,       \* this.showTimestamps
    colorProbe,           \* a text and a colour handed to lineHasColor, and its answer
    treeProbe,            \* deserializePaneTree(serializePaneTree(paneRoot)) when taken
    paneScrollBoxes,      \* this.paneScrollBoxes: pane id -> the lineNumbers of the
                          \* lines added to the scroll box's content, in order
    paneLineCount         \* this.paneLineCount: pane id -> last lineNumber rendered

vars == <<phase, scripts, selectedScripts, selectedIndex, countdown,
          countdownInterval, processes, processRefs, outputLines,
          totalLinesReceived, isPaused, destroyed, showCommandOverlay,
          commandOverlayOutput, commandOverlayScript, commandOverlayStatus,
          commandOverlayProcess, showRunCommandModal, runCommandModalIndex,
          procs, restartTimers, nodeExited, history, pane, paneLines,
          paneRoot, focusedPaneId, paneIdCounter, paneLayout, isFilterMode,
          isNamingMode, namingModeText, isInputMode, inputModeText,
          showSplitMenu, splitMenuIndex, previousPhase, settingsSection,
          settingsIndex, isAddingPattern, newPatternText, isAssigningShortcut,
          shortcutScriptName, ignore, include, shortcuts, showLineNumbers,
          showTimestamps, colorProbe, treeProbe, paneScrollBoxes,
          paneLineCount>>

selectionVars == <<selectedScripts, countdown, countdownInterval>>
overlayVars == <<showCommandOverlay, commandOverlayOutput, commandOverlayScript,
                 commandOverlayStatus, commandOverlayProcess>>
modalVars == <<showRunCommandModal, runCommandModalIndex>>
logVars == <<outputLines, totalLinesReceived>>
supervisorVars == <<processes, processRefs, procs, restartTimers>>
widgetVars == <<paneScrollBoxes, paneLineCount>>
\* the probes, and the widgets, which only the drawn handlers follow
probeVars == <<history, pane, paneLines, widgetVars>>
paneVars == <<paneRoot, focusedPaneId, paneIdCounter, paneLayout>>
captureVars == <<isFilterMode, isNamingMode, namingModeText, isInputMode,
                 inputModeText>>
menuVars == <<showSplitMenu, splitMenuIndex>>
settingsVars == <<previousPhase, settingsSection, settingsIndex, isAddingPattern,
                  newPatternText, isAssigningShortcut, shortcutScriptName>>
configVars == <<ignore, include, shortcuts, showLineNumbers, showTimestamps>>
pureVars == <<colorProbe, treeProbe>>
uiVars == <<paneVars, captureVars, menuVars, settingsVars, configVars, pureVars>>

\* ----------------------------------------------------------------- helpers
Min(a, b) == IF a < b THEN a ELSE b
Max(a, b) == IF a > b THEN a ELSE b

\* Array.prototype.filter
RECURSIVE FilterSeq(_, _)
FilterSeq(s, keep) ==
    IF s = <<>> THEN <<>>
    ELSE IF Head(s) \in keep THEN <<Head(s)>> \o FilterSeq(Tail(s), keep)
    ELSE FilterSeq(Tail(s), keep)

\* this.scripts[i]?.name, "" standing for undefined
ScriptAt(i) == IF i >= 0 /\ i < Len(scripts) THEN scripts[i + 1] ELSE ""

\* this.scripts.find(s => s.name === scriptName)
IsVisible(scriptName) == \E i \in 1..Len(scripts) : scripts[i] = scriptName

\* String.prototype.split('\n') of a chunk
RECURSIVE SplitLines(_, _)
SplitLines(text, cur) ==
    IF text = <<>> THEN <<cur>>
    ELSE IF Head(text) = "\n" THEN <<cur>> \o SplitLines(Tail(text), <<>>)
    ELSE SplitLines(Tail(text), Append(cur, Head(text)))

\* line.trim() is truthy
NonBlank(line) == \E i \in 1..Len(line) : line[i] \notin {" ", "\n", "\t"}

\* the lines of a chunk that the 'data' handlers keep
ChunkLines(chunk) == SelectSeq(SplitLines(chunk, <<>>), NonBlank)

RECURSIVE SeqsUpTo(_, _)
SeqsUpTo(S, n) ==
    IF n = 0 THEN {<<>>}
    ELSE LET shorter == SeqsUpTo(S, n - 1)
         IN shorter \cup {Append(s, c) : s \in shorter, c \in S}

Chunks == SeqsUpTo(Chars, MaxChunk) \ {<<>>}

\* exit codes of the 'exit' event: 0, non-zero, null (ended by a signal)
ExitCodes == {"0", "1", "null"}

\* the codes a child can end with: null only when a signal was sent to it
ExitCodesOf(p) == IF p.sig = "none" THEN {"0", "1"} ELSE {"0", "null"}

NoRunState == [status |-> "none", pid |-> 0, exitCode |-> "none"]

\* --------------------------------------------------------- text and colour
Uppers == <<"A", "B", "C", "D", "E", "F", "G", "H", "I", "J", "K", "L", "M",
            "N", "O", "P", "Q", "R", "S", "T", "U", "V", "W", "X", "Y", "Z">>
Lowers == <<"a", "b", "c", "d", "e", "f", "g", "h", "i", "j", "k", "l", "m",
            "n", "o", "p", "q", "r", "s", "t", "u", "v", "w", "x", "y", "z">>

\* String.prototype.toLowerCase
RECURSIVE toLowerCase(_)
toLowerCase(text) ==
    IF text = <<>> THEN <<>>
    ELSE LET c == Head(text)
             low == IF \E i \in 1..Len(Uppers) : Uppers[i] = c
                    THEN Lowers[CHOOSE i \in 1..Len(Uppers) : Uppers[i] = c]
                    ELSE c
         IN <<low>> \o toLowerCase(Tail(text))

\* String.prototype.includes
Includes(text, sub) ==
    \E i \in 0..(Len(text) - Len(sub)) : SubSeq(text, i + 1, i + Len(sub)) = sub

\* the characters of a script name
NameText(n) ==
    CASE n = "web" -> <<"w", "e", "b">>
      [] n = "api" -> <<"a", "p", "i">>
      [] OTHER -> <<>>

ColorNames == {"red", "yellow", "green", "blue", "cyan", "magenta"}

\* getAnsiColorCodes: the normal and the bright code of a colour, as digits
getAnsiColorCodes(colorName) ==
    CASE colorName = "red" -> <<<<"3", "1">>, <<"9", "1">>>>
      [] colorName = "yellow" -> <<<<"3", "3">>, <<"9", "3">>>>
      [] colorName = "green" -> <<<<"3", "2">>, <<"9", "2">>>>
      [] colorName = "blue" -> <<<<"3", "4">>, <<"9", "4">>>>
      [] colorName = "cyan" -> <<<<"3", "6">>, <<"9", "6">>>>
      [] colorName = "magenta" -> <<<<"3", "5">>, <<"9", "5">>>>
      [] OTHER -> <<>>

\* lineHasColor; "ESC" is the character \x1b
lineHasColor(text, colorName) ==
    LET codes == getAnsiColorCodes(colorName)
    IN \E k \in 1..Len(codes) :
           \/ Includes(text, <<"ESC", "[">> \o codes[k] \o <<"m">>)
           \/ Includes(text, <<";">> \o codes[k] \o <<"m">>)
           \/ Includes(text, <<"ESC", "[">> \o codes[k] \o <<";">>)

\* getOutputLinesForPane with the hidden list consulted only for a pane
\* that has no process scope
getOutputLinesForPaneElseIf(p, log) ==
    LET scoped ==
            IF p.processes # {}
            THEN SelectSeq(log, LAMBDA line : line.process \in p.processes)
            ELSE IF p.hidden # {}
            THEN SelectSeq(log, LAMBDA line : line.process \notin p.hidden)
            ELSE log
        byText ==
            IF p.filter # <<>>
            THEN SelectSeq(scoped, LAMBDA line :
                     \/ Includes(toLowerCase(NameText(line.process)),
                                 toLowerCase(p.filter))
                     \/ Includes(toLowerCase(line.text), toLowerCase(p.filter)))
            ELSE scoped
    IN IF p.colorFilter # "none"
       THEN SelectSeq(byText, LAMBDA line : lineHasColor(line.text, p.colorFilter))
       ELSE byText

\* getOutputLinesForPane, on the pane's fields and the log
getOutputLinesForPane(p, log) ==
    LET byProcess ==
            IF p.processes # {}
            THEN SelectSeq(log, LAMBDA line : line.process \in p.processes)
            ELSE log
        notHidden ==
            IF p.hidden # {}
            THEN SelectSeq(byProcess, LAMBDA line : line.process \notin p.hidden)
            ELSE byProcess
        byText ==
            IF p.filter # <<>>
            THEN SelectSeq(notHidden, LAMBDA line :
                     \/ Includes(toLowerCase(NameText(line.process)),
                                 toLowerCase(p.filter))
                     \/ Includes(toLowerCase(line.text), toLowerCase(p.filter)))
            ELSE notHidden
        byColor ==
            IF p.colorFilter # "none"
            THEN SelectSeq(byText, LAMBDA line : lineHasColor(line.text, p.colorFilter))
            ELSE byText
    IN byColor

\* ---------------------------------------------------------- the output log
\* addOutputLine trimming with slice(0, max): the newest line is dropped
addOutputLineKeepOldest(log, processName, text) ==
    LET pushed == Append(log.lines, [process |-> processName, text |-> text,
                                     lineNumber |-> log.total + 1])
    IN [lines |-> IF Len(pushed) > maxOutputLines
                  THEN SubSeq(pushed, 1, maxOutputLines)
                  ELSE pushed,
        total |-> log.total + 1]

\* addOutputLine on the pair (outputLines, totalLinesReceived)
addOutputLine(log, processName, text) ==
    LET pushed == Append(log.lines, [process |-> processName, text |-> text,
                                     lineNumber |-> log.total + 1])
    IN [lines |-> IF Len(pushed) > maxOutputLines
                  THEN SubSeq(pushed, Len(pushed) - maxOutputLines + 1, Len(pushed))
                  ELSE pushed,
        total |-> log.total + 1]

RECURSIVE addOutputLines(_, _, _)
addOutputLines(log, processName, texts) ==
    IF texts = <<>> THEN log
    ELSE addOutputLines(addOutputLine(log, processName, Head(texts)),
                        processName, Tail(texts))

CurLog == [lines |-> outputLines, total |-> totalLinesReceived]

SetLog(log) ==
    /\ outputLines' = log.lines
    /\ totalLinesReceived' = log.total

\* createPane(): the fields of a pane that select its lines
NoPane == [processes |-> {}, hidden |-> {}, filter |-> <<>>, colorFilter |-> "none"]

\* ----------------------------------------------------------- the pane tree
\* a missing node: null or undefined
NullNode == [type |-> "null"]

\* The flex ratios of a split are kept as exact fractions <<numerator,
\* denominator>> in lowest terms.
RECURSIVE Gcd(_, _)
Gcd(a, b) == IF b = 0 THEN a ELSE Gcd(b, a % b)

Frac(n, d) == LET g == Gcd(n, d) IN <<n \div g, d \div g>>

One == Frac(1, 1)

FracAdd(a, b) == Frac(a[1] * b[2] + b[1] * a[2], a[2] * b[2])

\* a / b for two ratios, and a * k, a / k for a ratio and a count
FracDiv(a, b) == Frac(a[1] * b[2], a[2] * b[1])
FracTimes(a, k) == Frac(a[1] * k, a[2])
FracOver(a, k) == Frac(a[1], a[2] * k)

RECURSIVE FracSum(_)
FracSum(sizes) ==
    IF sizes = <<>> THEN Frac(0, 1) ELSE FracAdd(Head(sizes), FracSum(Tail(sizes)))

\* [].concat(...lists)
RECURSIVE ConcatAll(_)
ConcatAll(lists) ==
    IF lists = <<>> THEN <<>> ELSE Head(lists) \o ConcatAll(Tail(lists))

\* the list mapped over 1..n, as a sequence also when n = 0
MapSeq(n, F(_)) == IF n = 0 THEN <<>> ELSE [i \in 1..n |-> F(i)]

\* createPane(processes), id being what generatePaneId() returned
createPane(id, shown) ==
    [type |-> "pane", id |-> id, name |-> <<>>, processes |-> shown,
     hidden |-> <<>>, filter |-> <<>>, colorFilter |-> "none",
     isPaused |-> FALSE, scrollOffset |-> 0]

createSplit(direction, children) ==
    [type |-> "split", direction |-> direction, children |-> children,
     sizes |-> MapSeq(Len(children), LAMBDA i : One)]

RECURSIVE findPaneById(_, _)
findPaneById(node, id) ==
    IF node.type = "null" THEN NullNode
    ELSE IF node.type = "pane" THEN (IF node.id = id THEN node ELSE NullNode)
    ELSE LET found == SelectSeq(
                 MapSeq(Len(node.children),
                        LAMBDA i : findPaneById(node.children[i], id)),
                 LAMBDA f : f.type # "null")
         IN IF found = <<>> THEN NullNode ELSE found[1]

\* the pane ids in pre-order
RECURSIVE getAllPaneIds(_)
getAllPaneIds(node) ==
    IF node.type = "null" THEN <<>>
    ELSE IF node.type = "pane" THEN <<node.id>>
    ELSE ConcatAll(MapSeq(Len(node.children),
                          LAMBDA i : getAllPaneIds(node.children[i])))

\* Array.prototype.indexOf, 0-based, -1 when absent
IndexOf(list, x) ==
    IF \E i \in 1..Len(list) : list[i] = x
    THEN (CHOOSE i \in 1..Len(list) :
              list[i] = x /\ \A j \in 1..(i - 1) : list[j] # x) - 1
    ELSE -1

\* splitPane that never flattens a new split into a same-direction parent
RECURSIVE splitPaneNoFlatten(_, _, _, _)
splitPaneNoFlatten(root, paneId, direction, newId) ==
    IF root.type = "null" THEN root
    ELSE IF root.type = "pane"
    THEN (IF root.id = paneId
          THEN createSplit(direction, <<root, createPane(newId, root.processes)>>)
          ELSE root)
    ELSE [root EXCEPT !.children =
              MapSeq(Len(root.children), LAMBDA i :
                  splitPaneNoFlatten(root.children[i], paneId, direction, newId))]

\* splitPane(root, paneId, direction); newId is the id generatePaneId() gives
\* the pane that createPane makes when paneId is found.  A split node comes
\* back from the recursion as a new object and a pane comes back as a split
\* only when it was the target, so `child !== root.children[idx]` is true of
\* every child that is a split.
RECURSIVE splitPane(_, _, _, _)
splitPane(root, paneId, direction, newId) ==
    IF root.type = "null" THEN root
    ELSE IF root.type = "pane"
    THEN (IF root.id = paneId
          THEN createSplit(direction, <<root, createPane(newId, root.processes)>>)
          ELSE root)
    ELSE LET n == Len(root.children)
             newChildren == MapSeq(n, LAMBDA i :
                                splitPane(root.children[i], paneId, direction, newId))
             flatten(i) == /\ newChildren[i].type = "split"
                           /\ newChildren[i].direction = root.direction
             flattenedChildren ==
                 ConcatAll(MapSeq(n, LAMBDA i :
                     IF flatten(i) THEN newChildren[i].children
                     ELSE <<newChildren[i]>>))
             flattenedSizes ==
                 ConcatAll(MapSeq(n, LAMBDA i :
                     IF flatten(i)
                     THEN LET k == Len(newChildren[i].children)
                          IN MapSeq(k, LAMBDA j : FracOver(root.sizes[i], k))
                     ELSE <<root.sizes[i]>>))
         IN [root EXCEPT !.children = flattenedChildren,
                         !.sizes = flattenedSizes]

\* closePane that drops a split left with one child instead of unwrapping it
RECURSIVE closePaneNoUnwrap(_, _)
closePaneNoUnwrap(root, paneId) ==
    IF root.type = "null" THEN NullNode
    ELSE IF root.type = "pane"
    THEN (IF root.id = paneId THEN NullNode ELSE root)
    ELSE LET n == Len(root.children)
             closed == MapSeq(n, LAMBDA i :
                           closePaneNoUnwrap(root.children[i], paneId))
             newChildren == SelectSeq(closed, LAMBDA c : c.type # "null")
         IN IF Len(newChildren) <= 1 THEN NullNode
            ELSE [root EXCEPT !.children = newChildren,
                              !.sizes = MapSeq(Len(newChildren), LAMBDA k : One)]

\* closePane that keeps the sizes of the removed children in the list
RECURSIVE closePaneKeepsSizes(_, _)
closePaneKeepsSizes(root, paneId) ==
    IF root.type = "null" THEN NullNode
    ELSE IF root.type = "pane"
    THEN (IF root.id = paneId THEN NullNode ELSE root)
    ELSE LET n == Len(root.children)
             closed == MapSeq(n, LAMBDA i :
                           closePaneKeepsSizes(root.children[i], paneId))
             newChildren == SelectSeq(closed, LAMBDA c : c.type # "null")
         IN IF Len(newChildren) = 0 THEN NullNode
            ELSE IF Len(newChildren) = 1 THEN newChildren[1]
            ELSE [root EXCEPT !.children = newChildren]

\* closePane(root, paneId); NullNode is the null it returns
RECURSIVE closePane(_, _)
closePane(root, paneId) ==
    IF root.type = "null" THEN NullNode
    ELSE IF root.type = "pane"
    THEN (IF root.id = paneId THEN NullNode ELSE root)
    ELSE LET n == Len(root.children)
             closed == MapSeq(n, LAMBDA i : closePane(root.children[i], paneId))
             originalIndices ==
                 SelectSeq(MapSeq(n, LAMBDA i : i),
                           LAMBDA i : closed[i].type # "null")
             newChildren ==
                 MapSeq(Len(originalIndices), LAMBDA k : closed[originalIndices[k]])
         IN IF Len(newChildren) = 0 THEN NullNode
            ELSE IF Len(newChildren) = 1 THEN newChildren[1]
            ELSE LET newSizes == MapSeq(Len(originalIndices),
                                    LAMBDA k : root.sizes[originalIndices[k]])
                     total == FracSum(newSizes)
                     normalizedSizes ==
                         MapSeq(Len(newSizes), LAMBDA k :
                             FracTimes(FracDiv(newSizes[k], total),
                                       Len(newChildren)))
                 IN [root EXCEPT !.children = newChildren,
                                 !.sizes = normalizedSizes]

\* serializePaneTree: the persisted fields only
RECURSIVE serializePaneTree(_)
serializePaneTree(node) ==
    IF node.type = "null" THEN NullNode
    ELSE IF node.type = "pane"
    THEN [type |-> "pane", name |-> node.name, processes |-> node.processes,
          hidden |-> node.hidden, filter |-> node.filter,
          colorFilter |-> node.colorFilter]
    ELSE [type |-> "split", direction |-> node.direction, sizes |-> node.sizes,
          children |-> MapSeq(Len(node.children),
                              LAMBDA i : serializePaneTree(node.children[i]))]

\* data.field || fallback, for a field that a persisted node may lack
Or(data, field, fallback) ==
    IF field \in DOMAIN data THEN data[field] ELSE fallback

\* deserializePaneTree(data) throws: a split below data has no children
\* list, so `data.children.map` is a call on undefined
RECURSIVE deserializeThrows(_)
deserializeThrows(data) ==
    /\ data.type \notin {"null", "pane"}
    /\ \/ "children" \notin DOMAIN data
       \/ \E i \in 1..Len(data.children) : deserializeThrows(data.children[i])

\* the number of panes below a persisted node
RECURSIVE CountPanes(_)
CountPanes(data) ==
    IF data.type = "null" THEN 0
    ELSE IF data.type = "pane" THEN 1
    ELSE LET RECURSIVE Sum(_)
             Sum(cs) == IF cs = <<>> THEN 0
                        ELSE CountPanes(Head(cs)) + Sum(Tail(cs))
         IN Sum(Or(data, "children", <<>>))

\* deserializePaneTree that restores a pane without its hidden list
RECURSIVE deserializePaneTreeNoHidden(_, _)
deserializePaneTreeNoHidden(data, counter) ==
    IF data.type = "null" THEN NullNode
    ELSE IF data.type = "pane"
    THEN [createPane(counter + 1, data.processes) EXCEPT
             !.name = data.name, !.filter = data.filter,
             !.colorFilter = data.colorFilter]
    ELSE LET before(i) == CountPanes([type |-> "split",
                                      children |-> SubSeq(data.children, 1, i - 1)])
         IN [type |-> "split", direction |-> data.direction,
             sizes |-> data.sizes,
             children |-> MapSeq(Len(data.children), LAMBDA i :
                              deserializePaneTreeNoHidden(data.children[i],
                                                          counter + before(i)))]

\* deserializePaneTree with paneIdCounter = counter at the call: the panes
\* take fresh ids in pre-order
RECURSIVE deserializePaneTree(_, _)
deserializePaneTree(data, counter) ==
    IF data.type = "null" THEN NullNode
    ELSE IF data.type = "pane"
    THEN [createPane(counter + 1, Or(data, "processes", <<>>)) EXCEPT
             !.name = Or(data, "name", <<>>),
             !.hidden = Or(data, "hidden", <<>>),
             !.filter = Or(data, "filter", <<>>),
             !.colorFilter = Or(data, "colorFilter", "none")]
    ELSE LET before(i) == CountPanes([type |-> "split",
                                      children |-> SubSeq(data.children, 1, i - 1)])
         IN [type |-> "split", direction |-> data.direction,
             sizes |-> Or(data, "sizes",
                          MapSeq(Len(data.children), LAMBDA i : One)),
             children |-> MapSeq(Len(data.children), LAMBDA i :
                              deserializePaneTree(data.children[i],
                                                  counter + before(i)))]

\* the tree after `pane.field = value` on the pane findPaneById finds for
\* that id; the tree itself when there is no such pane
RECURSIVE SetPaneField(_, _, _, _)
SetPaneField(node, id, field, value) ==
    IF node.type = "null" THEN node
    ELSE IF node.type = "pane"
    THEN (IF node.id = id THEN [node EXCEPT ![field] = value] ELSE node)
    ELSE [node EXCEPT !.children =
              MapSeq(Len(node.children),
                     LAMBDA i : SetPaneField(node.children[i], id, field, value))]

\* pane.filter = text on the pane of that id, if there is one
SetFilter(root, id, text) == SetPaneField(root, id, "filter", text)

\* ------------------------------------------------------------------- Init
InitCore ==
    /\ phase = "selection"
    /\ \E config \in Configs :
           /\ scripts = FilterSeq(AllScripts, Names \ config.ignore)
           /\ selectedScripts = config.defaultSelection
           /\ LET hiddenNames == SelectSeq(AllScripts, LAMBDA n : n \in config.ignore)
              IN ignore = MapSeq(Len(hiddenNames), LAMBDA i : NameText(hiddenNames[i]))
    /\ selectedIndex = 0
    /\ countdown = COUNTDOWN_SECONDS
    /\ countdownInterval = TRUE
    /\ processes = [n \in Names |-> NoRunState]
    /\ processRefs = [n \in Names |-> 0]
    /\ isPaused = FALSE
    /\ destroyed = FALSE
    /\ showCommandOverlay = FALSE
    /\ commandOverlayOutput = <<>>
    /\ commandOverlayScript = ""
    /\ commandOverlayStatus = "running"
    /\ commandOverlayProcess = 0
    /\ showRunCommandModal = FALSE
    /\ runCommandModalIndex = 0
    /\ procs = <<>>
    /\ restartTimers = [n \in Names |-> 0]
    /\ nodeExited = FALSE
    /\ history = <<>>
    /\ paneLines = [done |-> FALSE, lines |-> <<>>]
    /\ isFilterMode = FALSE
    /\ isNamingMode = FALSE
    /\ namingModeText = <<>>
    /\ isInputMode = FALSE
    /\ inputModeText = <<>>
    /\ showSplitMenu = FALSE
    /\ splitMenuIndex = 0
    /\ previousPhase = "selection"
    /\ settingsSection = "display"
    /\ settingsIndex = 0
    /\ isAddingPattern = FALSE
    /\ newPatternText = <<>>
    /\ isAssigningShortcut = FALSE
    /\ shortcutScriptName = ""
    /\ include = [defined |-> FALSE, patterns |-> <<>>]
    /\ showLineNumbers = TRUE
    /\ showTimestamps = FALSE
    /\ paneScrollBoxes = <<>>
    /\ paneLineCount = <<>>

\* a config file without a shortcuts key
InitBase ==
    /\ InitCore
    /\ shortcuts = <<>>

\* the pane tree and the layout of a first run, and the probes not yet taken
InitPanes ==
    /\ paneRoot = NullNode
    /\ focusedPaneId = 0
    /\ paneIdCounter = 0
    /\ paneLayout = NullNode

NoColorProbe == [done |-> FALSE, text |-> <<>>, colorName |-> "red",
                 result |-> FALSE]

NoTreeProbe == [done |-> FALSE, tree |-> NullNode]

InitProbes ==
    /\ colorProbe = NoColorProbe
    /\ treeProbe = NoTreeProbe

Init ==
    /\ InitBase
    /\ outputLines = <<>>
    /\ totalLinesReceived = 0
    /\ pane = NoPane
    /\ InitPanes
    /\ InitProbes

\* --------------------------------------------------- the process supervisor
\* the supervisor's state as one value, so that handlers can chain calls
Sup == [processes |-> processes, processRefs |-> processRefs, procs |-> procs,
        lines |-> outputLines, total |-> totalLinesReceived]

SetSup(s) ==
    /\ processes' = s.processes
    /\ processRefs' = s.processRefs
    /\ procs' = s.procs
    /\ outputLines' = s.lines
    /\ totalLinesReceived' = s.total

\* child_process.spawn: a new live child whose streams are flowing
Spawned(scriptName, kind) ==
    [name |-> scriptName, kind |-> kind, state |-> "live", sig |-> "none",
     flowing |-> TRUE]

\* tree-kill of a pid: a child that has already exited is not affected
Kill(ps, pid, signal) ==
    IF pid # 0 /\ ps[pid].state = "live" /\ ps[pid].sig # "SIGKILL"
    THEN [ps EXCEPT ![pid].sig = signal]
    ELSE ps

startProcess(s, scriptName) ==
    IF ~IsVisible(scriptName) THEN s
    ELSE LET pid == Len(s.procs) + 1
         IN [s EXCEPT
               !.procs = Append(@, Spawned(scriptName, "main")),
               !.processRefs[scriptName] = pid,
               !.processes[scriptName] =
                   [status |-> "running", pid |-> pid, exitCode |-> "none"]]

\* stopProcess that forgets every handle instead of the one it stopped
stopProcessDropsAll(s, scriptName) ==
    LET pid == s.processRefs[scriptName]
    IN IF pid # 0
       THEN LET log == addOutputLine([lines |-> s.lines, total |-> s.total],
                                     scriptName, <<"Process stopped">>)
            IN [s EXCEPT
                  !.procs = Kill(@, pid, "SIGTERM"),
                  !.processRefs = [n \in Names |-> 0],
                  !.processes[scriptName] =
                      [status |-> "stopped", pid |-> 0, exitCode |-> "none"],
                  !.lines = log.lines,
                  !.total = log.total]
       ELSE s

stopProcess(s, scriptName) ==
    LET pid == s.processRefs[scriptName]
    IN IF pid # 0
       THEN LET log == addOutputLine([lines |-> s.lines, total |-> s.total],
                                     scriptName, <<"Process stopped">>)
            IN [s EXCEPT
                  !.procs = Kill(@, pid, "SIGTERM"),
                  !.processRefs[scriptName] = 0,
                  !.processes[scriptName] =
                      [status |-> "stopped", pid |-> 0, exitCode |-> "none"],
                  !.lines = log.lines,
                  !.total = log.total]
       ELSE s

toggleProcess(s, scriptName) ==
    IF s.processes[scriptName].status = "running"
    THEN stopProcess(s, scriptName)
    ELSE startProcess(s, scriptName)

\* updateStreamPauseState: pause or resume the streams of every tracked handle
updateStreamPauseState(ps, refs, paused) ==
    IF ps = <<>> THEN ps ELSE
    [pid \in 1..Len(ps) |->
        IF \E n \in Names : refs[n] = pid
        THEN [ps[pid] EXCEPT !.flowing = ~paused]
        ELSE ps[pid]]

\* the kills of cleanup(): the overlay's process, then every tracked handle
RECURSIVE KillAll(_, _)
KillAll(ps, pids) ==
    IF pids = {} THEN ps
    ELSE LET pid == CHOOSE p \in pids : TRUE
         IN KillAll(Kill(ps, pid, "SIGKILL"), pids \ {pid})

cleanupKills(ps, refs, overlayPid) ==
    KillAll(ps, {refs[n] : n \in Names} \cup {overlayPid})

PendingTimers == LET RECURSIVE Sum(_)
                     Sum(S) == IF S = {} THEN 0
                               ELSE LET n == CHOOSE x \in S : TRUE
                                    IN restartTimers[n] + Sum(S \ {n})
                 IN Sum(Names)

\* room for one more spawn within MaxProcs
CanSpawn == Len(procs) + PendingTimers < MaxProcs

\* ------------------------------------------------------------ the handlers
KeysLive == ~destroyed /\ ~nodeExited

\* the capture modes left out of the conditions of Normal mode
NormalModeIgnoringCapture ==
    /\ KeysLive
    /\ phase = "running"
    /\ ~showCommandOverlay
    /\ ~showRunCommandModal
    /\ ~showSplitMenu

NormalMode ==
    /\ KeysLive
    /\ phase = "running"
    /\ ~showCommandOverlay
    /\ ~showRunCommandModal
    /\ ~showSplitMenu
    /\ ~isInputMode /\ ~isNamingMode /\ ~isFilterMode

\* startProcesses(): the transition from selection to running
startProcesses ==
    IF selectedScripts = {}
    THEN /\ nodeExited' = TRUE
         /\ UNCHANGED <<phase, selectedIndex, supervisorVars, logVars,
                        paneRoot, focusedPaneId, paneIdCounter>>
    ELSE IF deserializeThrows(paneLayout)
    \* the TypeError leaves startProcesses after `this.phase = 'running'`;
    \* no caller catches it
    THEN /\ phase' = "running"
         /\ selectedIndex' = 0
         /\ nodeExited' = TRUE
         /\ UNCHANGED <<supervisorVars, logVars, paneRoot, focusedPaneId,
                        paneIdCounter>>
    ELSE /\ phase' = "running"
         /\ selectedIndex' = 0
         /\ paneRoot' = IF paneLayout.type # "null"
                        THEN deserializePaneTree(paneLayout, paneIdCounter)
                        ELSE createPane(paneIdCounter + 1, <<>>)
         /\ paneIdCounter' = IF paneLayout.type # "null"
                             THEN paneIdCounter + CountPanes(paneLayout)
                             ELSE paneIdCounter + 1
         \* this.paneRoot.id, undefined when the root is a split
         /\ focusedPaneId' = IF paneRoot'.type = "pane" THEN paneRoot'.id ELSE 0
         /\ LET RECURSIVE StartAll(_, _)
                StartAll(s, i) ==
                    IF i > Len(AllScripts) THEN s
                    ELSE IF AllScripts[i] \in selectedScripts
                         THEN StartAll(startProcess(s, AllScripts[i]), i + 1)
                         ELSE StartAll(s, i + 1)
                s2 == StartAll(Sup, 1)
            IN /\ processes' = s2.processes
               /\ processRefs' = s2.processRefs
               /\ procs' = s2.procs
         /\ UNCHANGED <<logVars, restartTimers, nodeExited>>

\* Enter in the selection phase
SelectionEnter ==
    /\ KeysLive /\ phase = "selection"
    /\ countdownInterval' = FALSE
    /\ startProcesses
    /\ UNCHANGED <<scripts, selectedScripts, countdown, isPaused, destroyed,
                   overlayVars, modalVars, probeVars, paneLayout, captureVars,
                   menuVars, settingsVars, configVars, pureVars>>

\* the setInterval callback of startCountdown
CountdownTick ==
    /\ ~nodeExited /\ countdownInterval
    /\ countdown' = countdown - 1
    /\ IF countdown' <= 0
       THEN /\ countdownInterval' = FALSE
            /\ startProcesses
       ELSE UNCHANGED <<countdownInterval, phase, selectedIndex, supervisorVars,
                        logVars, nodeExited, paneRoot, focusedPaneId,
                        paneIdCounter>>
    /\ UNCHANGED <<scripts, selectedScripts, isPaused, destroyed, overlayVars,
                   modalVars, probeVars, paneLayout, captureVars, menuVars,
                   settingsVars, configVars, pureVars>>

\* the toggle without the countdown reset
SelectionToggleNoReset(index) ==
    /\ KeysLive /\ phase = "selection"
    /\ ScriptAt(index) # ""
    /\ LET scriptName == ScriptAt(index)
       IN selectedScripts' = IF scriptName \in selectedScripts
                             THEN selectedScripts \ {scriptName}
                             ELSE selectedScripts \cup {scriptName}
    /\ UNCHANGED <<phase, scripts, selectedIndex, countdown, countdownInterval,
                   supervisorVars, logVars, isPaused, destroyed, overlayVars,
                   modalVars, nodeExited, probeVars, uiVars>>

\* Space or a digit in the selection phase: toggle one script
SelectionToggle(index) ==
    /\ KeysLive /\ phase = "selection"
    /\ ScriptAt(index) # ""
    /\ LET scriptName == ScriptAt(index)
       IN selectedScripts' = IF scriptName \in selectedScripts
                             THEN selectedScripts \ {scriptName}
                             ELSE selectedScripts \cup {scriptName}
    /\ countdown' = COUNTDOWN_SECONDS
    /\ UNCHANGED <<phase, scripts, selectedIndex, countdownInterval,
                   supervisorVars, logVars, isPaused, destroyed, overlayVars,
                   modalVars, nodeExited, probeVars,
                   uiVars>>

SelectionSpace == SelectionToggle(selectedIndex)

SelectionDigit == \E d \in 1..9 : d - 1 < Len(scripts) /\ SelectionToggle(d - 1)

\* handleMouse in the selection phase: a left or middle click on the line of
\* script clickedIndex toggles it and moves the cursor there.  (Nothing in
\* src/index.js registers handleMouse with the renderer.)
SelectionClick(clickedIndex) ==
    /\ KeysLive /\ phase = "selection"
    /\ ScriptAt(clickedIndex) # ""
    /\ LET scriptName == ScriptAt(clickedIndex)
       IN selectedScripts' = IF scriptName \in selectedScripts
                             THEN selectedScripts \ {scriptName}
                             ELSE selectedScripts \cup {scriptName}
    /\ countdown' = COUNTDOWN_SECONDS
    /\ selectedIndex' = clickedIndex
    /\ UNCHANGED <<phase, scripts, countdownInterval, supervisorVars, logVars,
                   isPaused, destroyed, overlayVars, modalVars, nodeExited,
                   probeVars, uiVars>>

\* up / down in the selection phase
SelectionMove ==
    /\ KeysLive /\ phase = "selection"
    /\ \/ selectedIndex' = Max(0, selectedIndex - 1)
       \/ selectedIndex' = Min(Len(scripts) - 1, selectedIndex + 1)
    /\ UNCHANGED <<phase, scripts, selectionVars, supervisorVars, logVars,
                   isPaused, destroyed, overlayVars, modalVars, nodeExited, probeVars,
                   uiVars>>

\* up/k, down/j, left/h, right/l in Normal mode
RunningMove ==
    /\ NormalMode
    /\ \/ selectedIndex' = Max(0, selectedIndex - 1)
       \/ selectedIndex' = Min(Len(scripts) - 1, selectedIndex + 1)
       \/ selectedIndex' = IF selectedIndex - 1 < 0 THEN Len(scripts) - 1
                           ELSE selectedIndex - 1
       \/ /\ Len(scripts) > 0
          /\ selectedIndex' = (selectedIndex + 1) % Len(scripts)
    /\ UNCHANGED <<phase, scripts, selectionVars, supervisorVars, logVars,
                   isPaused, destroyed, overlayVars, modalVars, nodeExited, probeVars,
                   uiVars>>

\* restartProcess without the delay: the start is made at once
restartProcessNoDelay(scriptName) ==
    /\ SetSup(startProcess(stopProcess(Sup, scriptName), scriptName))
    /\ UNCHANGED restartTimers

\* 'r' in Normal mode: restartProcess(selected)
restartProcess(scriptName) ==
    /\ SetSup(stopProcess(Sup, scriptName))
    /\ restartTimers' = [restartTimers EXCEPT ![scriptName] = @ + 1]

KeyR ==
    /\ NormalMode /\ CanSpawn
    /\ ScriptAt(selectedIndex) # ""
    /\ restartProcess(ScriptAt(selectedIndex))
    /\ UNCHANGED <<phase, scripts, selectedIndex, selectionVars, isPaused,
                   destroyed, overlayVars, modalVars, nodeExited, probeVars,
                   uiVars>>

\* the setTimeout callback of restartProcess
RestartTimerFire(scriptName) ==
    /\ ~nodeExited
    /\ restartTimers[scriptName] > 0
    /\ restartTimers' = [restartTimers EXCEPT ![scriptName] = @ - 1]
    /\ LET s2 == startProcess(Sup, scriptName)
       IN /\ processes' = s2.processes
          /\ processRefs' = s2.processRefs
          /\ procs' = s2.procs
    /\ UNCHANGED <<phase, scripts, selectedIndex, selectionVars, logVars,
                   isPaused, destroyed, overlayVars, modalVars, nodeExited, probeVars,
                   uiVars>>

\* 's' in Normal mode: toggleProcess(selected)
KeyS ==
    /\ NormalMode
    /\ ScriptAt(selectedIndex) # ""
    /\ \/ processes[ScriptAt(selectedIndex)].status = "running"
       \/ CanSpawn
    /\ SetSup(toggleProcess(Sup, ScriptAt(selectedIndex)))
    /\ UNCHANGED <<phase, scripts, selectedIndex, selectionVars, restartTimers,
                   isPaused, destroyed, overlayVars, modalVars, nodeExited, probeVars,
                   uiVars>>

\* stdout/stderr 'data' of a supervised child
ProcData(pid, chunk) ==
    /\ ~nodeExited
    /\ procs[pid].kind = "main" /\ procs[pid].state = "live"
    /\ procs[pid].flowing
    /\ totalLinesReceived < MaxLines
    /\ SetLog(addOutputLines(CurLog, procs[pid].name, ChunkLines(chunk)))
    /\ UNCHANGED <<phase, scripts, selectedIndex, selectionVars, supervisorVars,
                   isPaused, destroyed, overlayVars, modalVars, nodeExited, probeVars,
                   uiVars>>

\* the 'exit' handler reporting every exit as clean
ProcExitAlwaysExited(pid, code) ==
    /\ ~nodeExited
    /\ procs[pid].kind = "main" /\ procs[pid].state = "live"
    /\ code \in ExitCodesOf(procs[pid])
    /\ procs' = [procs EXCEPT ![pid].state = "exited"]
    /\ processes' = [processes EXCEPT ![procs[pid].name] =
           [status |-> "exited", pid |-> 0, exitCode |-> code]]
    /\ SetLog(addOutputLine(CurLog, procs[pid].name,
                            <<"Process exited with code ", code>>))
    /\ UNCHANGED <<phase, scripts, selectedIndex, selectionVars, processRefs,
                   restartTimers, isPaused, destroyed, overlayVars, modalVars,
                   nodeExited, probeVars,
                   uiVars>>

\* 'exit' of a supervised child
ProcExit(pid, code) ==
    /\ ~nodeExited
    /\ procs[pid].kind = "main" /\ procs[pid].state = "live"
    /\ code \in ExitCodesOf(procs[pid])
    /\ procs' = [procs EXCEPT ![pid].state = "exited"]
    /\ processes' = [processes EXCEPT ![procs[pid].name] =
           [status |-> IF code = "0" THEN "exited" ELSE "crashed",
            pid |-> 0, exitCode |-> code]]
    /\ SetLog(addOutputLine(CurLog, procs[pid].name,
                            <<"Process exited with code ", code>>))
    /\ UNCHANGED <<phase, scripts, selectedIndex, selectionVars, processRefs,
                   restartTimers, isPaused, destroyed, overlayVars, modalVars,
                   nodeExited, probeVars,
                   uiVars>>

\* 'p' in Normal mode: toggle the freeze
KeyP ==
    /\ NormalMode
    /\ isPaused' = ~isPaused
    /\ procs' = updateStreamPauseState(procs, processRefs, isPaused')
    /\ UNCHANGED <<phase, scripts, selectedIndex, selectionVars, processes,
                   processRefs, restartTimers, logVars, destroyed, overlayVars,
                   modalVars, nodeExited, probeVars,
                   uiVars>>

\* Escape in Normal mode: clear the focused pane's filter, lift the freeze
KeyEscape ==
    /\ NormalMode
    /\ paneRoot' = SetFilter(paneRoot, focusedPaneId, <<>>)
    /\ isPaused' = FALSE
    /\ procs' = updateStreamPauseState(procs, processRefs, isPaused')
    /\ UNCHANGED <<phase, scripts, selectedIndex, selectionVars, processes,
                   processRefs, restartTimers, logVars, destroyed, overlayVars,
                   modalVars, nodeExited, probeVars, focusedPaneId,
                   paneIdCounter, paneLayout, captureVars, menuVars,
                   settingsVars, configVars, pureVars>>

\* Home, End, PageUp, PageDown in Normal mode: scrollFocusedPane(direction)
KeyScroll(direction) ==
    /\ NormalMode
    \* the focused pane's scroll box, built by the last render
    /\ IndexOf(getAllPaneIds(paneRoot), focusedPaneId) >= 0
    /\ IF direction # "end" /\ ~isPaused
       THEN /\ isPaused' = TRUE
            /\ procs' = updateStreamPauseState(procs, processRefs, isPaused')
       ELSE UNCHANGED <<isPaused, procs>>
    /\ UNCHANGED <<phase, scripts, selectedIndex, selectionVars, processes,
                   processRefs, restartTimers, logVars, destroyed, overlayVars,
                   modalVars, nodeExited, probeVars,
                   uiVars>>

\* cleanup(), followed by renderer.destroy() in each of its callers
cleanup ==
    /\ destroyed' = TRUE
    /\ countdownInterval' = FALSE
    /\ procs' = cleanupKills(procs, processRefs, commandOverlayProcess)
    /\ UNCHANGED <<phase, scripts, selectedIndex, selectedScripts, countdown,
                   processes, processRefs, restartTimers, logVars, isPaused,
                   overlayVars, modalVars, nodeExited, probeVars, paneRoot,
                   focusedPaneId, paneIdCounter, captureVars, menuVars,
                   settingsVars, configVars, pureVars>>

\* 'q' in Normal mode: savePaneLayout(), then cleanup()
KeyQ ==
    /\ NormalMode
    /\ paneLayout' = serializePaneTree(paneRoot)
    /\ cleanup

\* Ctrl+C, in every phase and mode
KeyCtrlC == KeysLive /\ cleanup /\ UNCHANGED paneLayout

\* handleExit: SIGINT or SIGTERM delivered to the program
HandleExit == ~nodeExited /\ cleanup /\ UNCHANGED paneLayout

\* ------------------------------------------------- panes of the running UI
\* the pane fields of the manager as one value, so that handlers chain calls
PaneState == [root |-> paneRoot, focused |-> focusedPaneId,
              counter |-> paneIdCounter, layout |-> paneLayout]

SetPaneState(ps) ==
    /\ paneRoot' = ps.root
    /\ focusedPaneId' = ps.focused
    /\ paneIdCounter' = ps.counter
    /\ paneLayout' = ps.layout

savePaneLayout(ps) == [ps EXCEPT !.layout = serializePaneTree(ps.root)]

splitCurrentPane(ps, direction) ==
    IF ps.focused = 0 THEN ps
    ELSE LET found == IndexOf(getAllPaneIds(ps.root), ps.focused) >= 0
             root == splitPane(ps.root, ps.focused, direction, ps.counter + 1)
             allPanes == getAllPaneIds(root)
             currentIdx == IndexOf(allPanes, ps.focused)
         IN savePaneLayout(
                [ps EXCEPT
                    !.root = root,
                    !.counter = IF found THEN @ + 1 ELSE @,
                    !.focused = IF currentIdx >= 0 /\ currentIdx + 1 < Len(allPanes)
                                THEN allPanes[currentIdx + 2] ELSE @])

closeCurrentPane(ps) ==
    LET allPanes == getAllPaneIds(ps.root)
        currentIdx == IndexOf(allPanes, ps.focused)
        nextIdx == IF currentIdx > 0 THEN currentIdx - 1 ELSE 1
    IN IF ps.focused = 0 \/ Len(allPanes) <= 1 THEN ps
       ELSE savePaneLayout([ps EXCEPT !.root = closePane(ps.root, ps.focused),
                                      !.focused = allPanes[nextIdx + 1]])

navigateToNextPane(ps, direction) ==
    LET allPanes == getAllPaneIds(ps.root)
        currentIdx == IndexOf(allPanes, ps.focused)
        nextIdx == (currentIdx + direction + Len(allPanes)) % Len(allPanes)
    IN IF Len(allPanes) <= 1 THEN ps
       ELSE [ps EXCEPT !.focused = allPanes[nextIdx + 1]]

\* what a pane handler leaves alone
PaneFrame ==
    UNCHANGED <<phase, scripts, selectedIndex, selectionVars, supervisorVars,
                logVars, isPaused, destroyed, overlayVars, modalVars,
                nodeExited, probeVars, captureVars, settingsVars, ignore,
                include, shortcuts, showTimestamps, pureVars>>

\* '|' and '_' in Normal mode
KeySplit(direction) ==
    /\ NormalMode
    /\ paneIdCounter < MaxUiPanes
    /\ SetPaneState(splitCurrentPane(PaneState, direction))
    /\ UNCHANGED <<menuVars, showLineNumbers>>
    /\ PaneFrame

\* 'x' in Normal mode, taken only with more than one pane
KeyX ==
    /\ NormalMode
    /\ Len(getAllPaneIds(paneRoot)) > 1
    /\ SetPaneState(closeCurrentPane(PaneState))
    /\ UNCHANGED <<menuVars, showLineNumbers>>
    /\ PaneFrame

\* Tab in Normal mode, with or without Shift: the key's name is 'tab' in both
\* cases, so the branch `keyName === 'tab'` takes both and the branch
\* `keyEvent.shift && keyName === 'tab'` after it is never reached
KeyTab(shift) ==
    /\ NormalMode
    /\ shift \in BOOLEAN
    /\ SetPaneState(navigateToNextPane(PaneState, 1))
    /\ UNCHANGED <<menuVars, showLineNumbers>>
    /\ PaneFrame

\* '\' in Normal mode: open the command palette
KeyBackslash ==
    /\ NormalMode
    /\ showSplitMenu' = TRUE
    /\ splitMenuIndex' = 0
    /\ UNCHANGED <<paneVars, showLineNumbers>>
    /\ PaneFrame

SplitMenuOpen ==
    /\ KeysLive /\ phase = "running"
    /\ ~showCommandOverlay /\ ~showRunCommandModal
    /\ showSplitMenu

\* getSplitMenuItems(): the entries of the palette, by what they do
getSplitMenuItems ==
    <<"splitVertical", "splitHorizontal">>
    \o (IF Len(getAllPaneIds(paneRoot)) > 1
        THEN <<"closePane", "nextPane", "previousPane">> ELSE <<>>)
    \o <<"toggleLineNumbers", "toggleTimestamps">>

\* handleSplitMenuInput: Escape or 'q'
SplitMenuClose ==
    /\ SplitMenuOpen
    /\ showSplitMenu' = FALSE
    /\ UNCHANGED <<paneVars, splitMenuIndex, showLineNumbers>>
    /\ PaneFrame

\* handleSplitMenuInput: up/k, down/j
SplitMenuMove ==
    /\ SplitMenuOpen
    /\ \/ splitMenuIndex' = Max(0, splitMenuIndex - 1)
       \/ splitMenuIndex' = Min(Len(getSplitMenuItems) - 1, splitMenuIndex + 1)
    /\ UNCHANGED <<paneVars, showSplitMenu, showLineNumbers>>
    /\ PaneFrame

\* handleSplitMenuInput: Enter runs the entry's action and closes the palette
SplitMenuEnter ==
    /\ SplitMenuOpen
    /\ LET item == IF splitMenuIndex < Len(getSplitMenuItems)
                   THEN getSplitMenuItems[splitMenuIndex + 1] ELSE "none"
       IN /\ item \in {"splitVertical", "splitHorizontal"}
                 => paneIdCounter < MaxUiPanes
          /\ SetPaneState(
                 CASE item = "splitVertical" ->
                          splitCurrentPane(PaneState, "vertical")
                   [] item = "splitHorizontal" ->
                          splitCurrentPane(PaneState, "horizontal")
                   [] item = "closePane" -> closeCurrentPane(PaneState)
                   [] item = "nextPane" -> navigateToNextPane(PaneState, 1)
                   [] item = "previousPane" -> navigateToNextPane(PaneState, -1)
                   [] OTHER -> PaneState)
          /\ showLineNumbers' = IF item = "toggleLineNumbers"
                                THEN ~showLineNumbers ELSE showLineNumbers
          /\ showTimestamps' = IF item = "toggleTimestamps"
                               THEN ~showTimestamps ELSE showTimestamps
    /\ showSplitMenu' = FALSE
    /\ UNCHANGED <<phase, scripts, selectedIndex, selectionVars, supervisorVars,
                   logVars, isPaused, destroyed, overlayVars, modalVars,
                   nodeExited, probeVars, captureVars, settingsVars, ignore,
                   include, shortcuts, pureVars, splitMenuIndex>>

\* ------------------------------------------------------ the settings screen
\* matchesPattern: the pattern read as a regular expression in which `*`
\* stands for `.*`, anchored at both ends
RECURSIVE matchesPattern(_, _)
matchesPattern(str, pattern) ==
    IF pattern = <<>> THEN str = <<>>
    ELSE IF Head(pattern) = "*"
    THEN \/ matchesPattern(str, Tail(pattern))
         \/ str # <<>> /\ matchesPattern(Tail(str), pattern)
    ELSE /\ str # <<>>
         /\ Head(str) = Head(pattern)
         /\ matchesPattern(Tail(str), Tail(pattern))

isIncluded(name, includePatterns) ==
    IF ~includePatterns.defined THEN TRUE
    ELSE \E i \in 1..Len(includePatterns.patterns) :
             matchesPattern(NameText(name), includePatterns.patterns[i])

isIgnored(name, ignorePatterns) ==
    \E i \in 1..Len(ignorePatterns) :
        matchesPattern(NameText(name), ignorePatterns[i])

\* String.prototype.trim
RECURSIVE TrimLeft(_)
TrimLeft(text) ==
    IF text # <<>> /\ Head(text) \in {" ", "\n", "\t"} THEN TrimLeft(Tail(text))
    ELSE text

RECURSIVE TrimRight(_)
TrimRight(text) ==
    IF text # <<>> /\ text[Len(text)] \in {" ", "\n", "\t"}
    THEN TrimRight(SubSeq(text, 1, Len(text) - 1))
    ELSE text

Trim(text) == TrimRight(TrimLeft(text))

\* Array.prototype.splice(index, 1)
RemoveAt(list, index) ==
    IF index >= 0 /\ index < Len(list)
    THEN SubSeq(list, 1, index) \o SubSeq(list, index + 2, Len(list))
    ELSE list

\* this.allScripts[i]?.name, "" standing for undefined
AllScriptAt(i) == IF i >= 0 /\ i < Len(AllScripts) THEN AllScripts[i + 1] ELSE ""

\* this.config.shortcuts[key], "" standing for undefined
ShortcutOf(table, key) ==
    IF \E i \in 1..Len(table) : table[i].key = key
    THEN table[CHOOSE i \in 1..Len(table) : table[i].key = key].script
    ELSE ""

\* applyFilters(), given the patterns now in the config
applyFilters(ignoreNow, includeNow) ==
    /\ scripts' = SelectSeq(AllScripts, LAMBDA n :
                      isIncluded(n, includeNow) /\ ~isIgnored(n, ignoreNow))
    /\ selectedScripts' =
           {n \in selectedScripts : \E i \in 1..Len(scripts') : scripts'[i] = n}

Sections == <<"display", "ignore", "include", "shortcuts", "scripts">>

SectionIndex(section) == IndexOf(Sections, section)

getSettingsMaxIndex(section) ==
    CASE section = "display" -> 1
      [] section = "ignore" -> IF Len(ignore) > 0 THEN Len(ignore) - 1 ELSE 0
      [] section = "include" ->
             IF Len(include.patterns) > 0 THEN Len(include.patterns) - 1 ELSE 0
      [] section = "shortcuts" -> Max(0, Len(AllScripts) - 1)
      [] section = "scripts" -> Max(0, Len(AllScripts) - 1)
      [] OTHER -> 0

\* what no settings handler touches
SettingsFrame ==
    UNCHANGED <<supervisorVars, logVars, isPaused, destroyed, overlayVars,
                modalVars, nodeExited, probeVars, paneVars, captureVars,
                menuVars, pureVars>>

\* 'o' in the selection phase, with the countdown left running
SelectionOKeepsTimer ==
    /\ KeysLive /\ phase = "selection"
    /\ previousPhase' = "selection"
    /\ phase' = "settings"
    /\ settingsSection' = "display"
    /\ settingsIndex' = 0
    /\ UNCHANGED <<scripts, selectedIndex, selectionVars, isAddingPattern,
                   newPatternText, isAssigningShortcut, shortcutScriptName,
                   configVars>>
    /\ SettingsFrame

\* 'o' in the selection phase: stop the countdown, open the settings
SelectionO ==
    /\ KeysLive /\ phase = "selection"
    /\ countdownInterval' = FALSE
    /\ previousPhase' = "selection"
    /\ phase' = "settings"
    /\ settingsSection' = "display"
    /\ settingsIndex' = 0
    /\ UNCHANGED <<scripts, selectedIndex, selectedScripts, countdown,
                   isAddingPattern, newPatternText, isAssigningShortcut,
                   shortcutScriptName, configVars>>
    /\ SettingsFrame

\* 'o' in Normal mode of the running phase
KeyO ==
    /\ NormalMode
    /\ previousPhase' = "running"
    /\ phase' = "settings"
    /\ settingsSection' = "display"
    /\ settingsIndex' = 0
    /\ UNCHANGED <<scripts, selectedIndex, selectionVars, isAddingPattern,
                   newPatternText, isAssigningShortcut, shortcutScriptName,
                   configVars>>
    /\ SettingsFrame

\* handleSettingsInput outside the two capture modes
SettingsNormal ==
    /\ KeysLive /\ phase = "settings"
    /\ ~isAssigningShortcut /\ ~isAddingPattern

\* Escape or 'q' that always goes back to the selection phase
SettingsExitToSelection ==
    /\ SettingsNormal
    /\ applyFilters(ignore, include)
    /\ selectedIndex' = IF selectedIndex >= Len(scripts')
                        THEN Max(0, Len(scripts') - 1) ELSE selectedIndex
    /\ phase' = "selection"
    /\ countdown' = COUNTDOWN_SECONDS
    /\ countdownInterval' = TRUE
    /\ UNCHANGED <<settingsVars, configVars>>
    /\ SettingsFrame

\* Escape or 'q': apply the patterns and go back to the phase that opened
\* the settings
SettingsExit ==
    /\ SettingsNormal
    /\ applyFilters(ignore, include)
    /\ selectedIndex' = IF selectedIndex >= Len(scripts')
                        THEN Max(0, Len(scripts') - 1) ELSE selectedIndex
    /\ IF previousPhase = "running"
       THEN /\ phase' = "running"
            /\ UNCHANGED <<countdown, countdownInterval>>
       ELSE /\ phase' = "selection"
            /\ countdown' = COUNTDOWN_SECONDS
            /\ countdownInterval' = TRUE
    /\ UNCHANGED <<settingsVars, configVars>>
    /\ SettingsFrame

\* Tab (with or without Shift) or Right: the next section; Left: the previous
SettingsSwitch(by) ==
    /\ SettingsNormal
    /\ by \in {1, -1}
    /\ settingsSection' =
           Sections[((SectionIndex(settingsSection) + by + Len(Sections))
                        % Len(Sections)) + 1]
    /\ settingsIndex' = 0
    /\ UNCHANGED <<phase, scripts, selectedIndex, selectionVars, previousPhase,
                   isAddingPattern, newPatternText, isAssigningShortcut,
                   shortcutScriptName, configVars>>
    /\ SettingsFrame

SettingsUp ==
    /\ SettingsNormal
    /\ IF settingsIndex > 0
       THEN /\ settingsIndex' = settingsIndex - 1
            /\ UNCHANGED settingsSection
       ELSE IF SectionIndex(settingsSection) > 0
       THEN /\ settingsSection' = Sections[SectionIndex(settingsSection)]
            /\ settingsIndex' = getSettingsMaxIndex(settingsSection')
       ELSE UNCHANGED <<settingsSection, settingsIndex>>
    /\ UNCHANGED <<phase, scripts, selectedIndex, selectionVars, previousPhase,
                   isAddingPattern, newPatternText, isAssigningShortcut,
                   shortcutScriptName, configVars>>
    /\ SettingsFrame

SettingsDown ==
    /\ SettingsNormal
    /\ IF settingsIndex < getSettingsMaxIndex(settingsSection)
       THEN /\ settingsIndex' = settingsIndex + 1
            /\ UNCHANGED settingsSection
       ELSE IF SectionIndex(settingsSection) < Len(Sections) - 1
       THEN /\ settingsSection' = Sections[SectionIndex(settingsSection) + 2]
            /\ settingsIndex' = 0
       ELSE UNCHANGED <<settingsSection, settingsIndex>>
    /\ UNCHANGED <<phase, scripts, selectedIndex, selectionVars, previousPhase,
                   isAddingPattern, newPatternText, isAssigningShortcut,
                   shortcutScriptName, configVars>>
    /\ SettingsFrame

\* 'i' (a new ignore pattern) and 'n' (a new include pattern)
SettingsAddPattern(section) ==
    /\ SettingsNormal
    /\ section \in {"ignore", "include"}
    /\ Len(ignore) + Len(include.patterns) < MaxPatterns
    /\ settingsSection' = section
    /\ isAddingPattern' = TRUE
    /\ newPatternText' = <<>>
    /\ UNCHANGED <<phase, scripts, selectedIndex, selectionVars, previousPhase,
                   settingsIndex, isAssigningShortcut, shortcutScriptName,
                   configVars>>
    /\ SettingsFrame

AddingPattern == KeysLive /\ phase = "settings" /\ ~isAssigningShortcut /\ isAddingPattern

\* Escape while a pattern is typed
PatternEscape ==
    /\ AddingPattern
    /\ isAddingPattern' = FALSE
    /\ newPatternText' = <<>>
    /\ UNCHANGED <<phase, scripts, selectedIndex, selectionVars, previousPhase,
                   settingsSection, settingsIndex, isAssigningShortcut,
                   shortcutScriptName, configVars>>
    /\ SettingsFrame

\* Enter while a pattern is typed: add it to the section's list
PatternEnter ==
    /\ AddingPattern
    /\ IF Trim(newPatternText) # <<>>
       THEN /\ ignore' = IF settingsSection = "ignore"
                         THEN Append(ignore, Trim(newPatternText)) ELSE ignore
            /\ include' = IF settingsSection = "include"
                          THEN [defined |-> TRUE,
                                patterns |-> Append(include.patterns,
                                                    Trim(newPatternText))]
                          ELSE include
            /\ applyFilters(ignore', include')
       ELSE UNCHANGED <<ignore, include, scripts, selectedScripts>>
    /\ isAddingPattern' = FALSE
    /\ newPatternText' = <<>>
    /\ UNCHANGED <<phase, selectedIndex, countdown, countdownInterval,
                   previousPhase, settingsSection, settingsIndex,
                   isAssigningShortcut, shortcutScriptName, shortcuts,
                   showLineNumbers, showTimestamps>>
    /\ SettingsFrame

\* Backspace while a pattern is typed
PatternBackspace ==
    /\ AddingPattern
    /\ newPatternText' = SubSeq(newPatternText, 1, Len(newPatternText) - 1)
    /\ UNCHANGED <<phase, scripts, selectedIndex, selectionVars, previousPhase,
                   settingsSection, settingsIndex, isAddingPattern,
                   isAssigningShortcut, shortcutScriptName, configVars>>
    /\ SettingsFrame

\* a one-character key while a pattern is typed
PatternChar(c) ==
    /\ AddingPattern
    /\ Len(newPatternText) < MaxPattern
    /\ newPatternText' = Append(newPatternText, c)
    /\ UNCHANGED <<phase, scripts, selectedIndex, selectionVars, previousPhase,
                   settingsSection, settingsIndex, isAddingPattern,
                   isAssigningShortcut, shortcutScriptName, configVars>>
    /\ SettingsFrame

\* 'd' or Backspace: deleteSelectedItem()
SettingsDelete ==
    /\ SettingsNormal
    /\ IF settingsSection = "ignore" /\ Len(ignore) > 0
       THEN /\ ignore' = RemoveAt(ignore, settingsIndex)
            /\ applyFilters(ignore', include)
            /\ settingsIndex' =
                   Max(0, Min(settingsIndex,
                              (IF Len(ignore') > 0 THEN Len(ignore') ELSE 1) - 1))
            /\ UNCHANGED <<include, shortcuts>>
       ELSE IF settingsSection = "include" /\ Len(include.patterns) > 0
       THEN /\ LET left == RemoveAt(include.patterns, settingsIndex)
               IN include' = [defined |-> left # <<>>, patterns |-> left]
            /\ applyFilters(ignore, include')
            /\ settingsIndex' =
                   Max(0, Min(settingsIndex,
                              (IF Len(include'.patterns) > 0
                               THEN Len(include'.patterns) ELSE 1) - 1))
            /\ UNCHANGED <<ignore, shortcuts>>
       ELSE IF settingsSection = "shortcuts"
                   /\ AllScriptAt(settingsIndex) # ""
                   /\ \E i \in 1..Len(shortcuts) :
                          shortcuts[i].script = AllScriptAt(settingsIndex)
       THEN /\ LET first == CHOOSE i \in 1..Len(shortcuts) :
                       /\ shortcuts[i].script = AllScriptAt(settingsIndex)
                       /\ \A j \in 1..(i - 1) :
                              shortcuts[j].script # AllScriptAt(settingsIndex)
               IN shortcuts' = RemoveAt(shortcuts, first - 1)
            /\ UNCHANGED <<ignore, include, scripts, selectedScripts,
                           settingsIndex>>
       ELSE UNCHANGED <<ignore, include, shortcuts, scripts, selectedScripts,
                        settingsIndex>>
    /\ UNCHANGED <<phase, selectedIndex, countdown, countdownInterval,
                   previousPhase, settingsSection, isAddingPattern,
                   newPatternText, isAssigningShortcut, shortcutScriptName,
                   showLineNumbers, showTimestamps>>
    /\ SettingsFrame

\* Space or Enter: toggleDisplayOption(), assignShortcut() or
\* toggleScriptIgnore(), by section
SettingsToggle ==
    /\ SettingsNormal
    /\ showLineNumbers' = IF settingsSection = "display" /\ settingsIndex = 0
                          THEN ~showLineNumbers ELSE showLineNumbers
    /\ showTimestamps' = IF settingsSection = "display" /\ settingsIndex = 1
                         THEN ~showTimestamps ELSE showTimestamps
    /\ IF settingsSection = "shortcuts" /\ AllScriptAt(settingsIndex) # ""
       THEN /\ isAssigningShortcut' = TRUE
            /\ shortcutScriptName' = AllScriptAt(settingsIndex)
       ELSE UNCHANGED <<isAssigningShortcut, shortcutScriptName>>
    /\ IF settingsSection = "scripts" /\ AllScriptAt(settingsIndex) # ""
       THEN /\ LET exactPattern == NameText(AllScriptAt(settingsIndex))
                   idx == IndexOf(ignore, exactPattern)
               IN ignore' = IF idx >= 0 THEN RemoveAt(ignore, idx)
                            ELSE Append(ignore, exactPattern)
            /\ applyFilters(ignore', include)
       ELSE UNCHANGED <<ignore, scripts, selectedScripts>>
    /\ UNCHANGED <<phase, selectedIndex, countdown, countdownInterval,
                   previousPhase, settingsSection, settingsIndex,
                   isAddingPattern, newPatternText, include, shortcuts>>
    /\ SettingsFrame

AssigningShortcut == KeysLive /\ phase = "settings" /\ isAssigningShortcut

\* Escape while a shortcut key is awaited
ShortcutEscape ==
    /\ AssigningShortcut
    /\ isAssigningShortcut' = FALSE
    /\ shortcutScriptName' = ""
    /\ UNCHANGED <<phase, scripts, selectedIndex, selectionVars, previousPhase,
                   settingsSection, settingsIndex, isAddingPattern,
                   newPatternText, configVars>>
    /\ SettingsFrame

\* a one-character key while a shortcut key is awaited: the script's old key
\* the assignment that leaves the key's previous entry in the table
ShortcutAssignKeepsOwner(keyName) ==
    /\ AssigningShortcut
    /\ LET others == SelectSeq(shortcuts, LAMBDA e :
                         e.script # shortcutScriptName)
       IN shortcuts' = Append(others, [key |-> keyName,
                                       script |-> shortcutScriptName])
    /\ isAssigningShortcut' = FALSE
    /\ shortcutScriptName' = ""
    /\ UNCHANGED <<phase, scripts, selectedIndex, selectionVars, previousPhase,
                   settingsSection, settingsIndex, isAddingPattern,
                   newPatternText, ignore, include, showLineNumbers,
                   showTimestamps>>
    /\ SettingsFrame

\* and the key's old script go, the key is given to the script
ShortcutAssign(keyName) ==
    /\ AssigningShortcut
    /\ LET others == SelectSeq(shortcuts, LAMBDA e :
                         e.script # shortcutScriptName /\ e.key # keyName)
       IN shortcuts' = Append(others, [key |-> keyName,
                                       script |-> shortcutScriptName])
    /\ isAssigningShortcut' = FALSE
    /\ shortcutScriptName' = ""
    /\ UNCHANGED <<phase, scripts, selectedIndex, selectionVars, previousPhase,
                   settingsSection, settingsIndex, isAddingPattern,
                   newPatternText, ignore, include, showLineNumbers,
                   showTimestamps>>
    /\ SettingsFrame

\* ------------------------------------------------- one-off command overlay
executeCommand(scriptName) ==
    /\ showCommandOverlay' = TRUE
    /\ commandOverlayOutput' = <<>>
    /\ commandOverlayScript' = scriptName
    /\ commandOverlayStatus' = "running"
    /\ procs' = Append(procs, Spawned(scriptName, "oneoff"))
    /\ commandOverlayProcess' = Len(procs) + 1

closeCommandOverlay ==
    /\ procs' = Kill(procs, commandOverlayProcess, "SIGKILL")
    /\ showCommandOverlay' = FALSE
    /\ commandOverlayOutput' = <<>>
    /\ commandOverlayScript' = ""
    /\ commandOverlayStatus' = "running"
    /\ commandOverlayProcess' = 0

\* 'e' in Normal mode: open the run picker
KeyE ==
    /\ NormalMode
    /\ showRunCommandModal' = TRUE
    /\ runCommandModalIndex' = 0
    /\ UNCHANGED <<phase, scripts, selectedIndex, selectionVars, supervisorVars,
                   logVars, isPaused, destroyed, overlayVars, nodeExited, probeVars,
                   uiVars>>

RunPickerOpen ==
    /\ KeysLive /\ phase = "running"
    /\ ~showCommandOverlay /\ showRunCommandModal

\* handleRunCommandModalInput: Escape or 'q'
RunPickerClose ==
    /\ RunPickerOpen
    /\ showRunCommandModal' = FALSE
    /\ UNCHANGED <<phase, scripts, selectedIndex, selectionVars, supervisorVars,
                   logVars, isPaused, destroyed, overlayVars,
                   runCommandModalIndex, nodeExited, probeVars,
                   uiVars>>

\* handleRunCommandModalInput: up/k, down/j
RunPickerMove ==
    /\ RunPickerOpen
    /\ \/ runCommandModalIndex' = Max(0, runCommandModalIndex - 1)
       \/ runCommandModalIndex' =
              Min(Len(AllScripts) - 1, runCommandModalIndex + 1)
    /\ UNCHANGED <<phase, scripts, selectedIndex, selectionVars, supervisorVars,
                   logVars, isPaused, destroyed, overlayVars,
                   showRunCommandModal, nodeExited, probeVars,
                   uiVars>>

\* handleRunCommandModalInput: Enter runs the picked script as a one-off
RunPickerEnter ==
    /\ RunPickerOpen /\ CanSpawn
    /\ runCommandModalIndex < Len(AllScripts)
    /\ showRunCommandModal' = FALSE
    /\ executeCommand(AllScripts[runCommandModalIndex + 1])
    /\ UNCHANGED <<phase, scripts, selectedIndex, selectionVars, processes,
                   processRefs, restartTimers, logVars, isPaused, destroyed,
                   runCommandModalIndex, nodeExited, probeVars,
                   uiVars>>

\* Escape while the overlay is shown
OverlayEscape ==
    /\ KeysLive /\ phase = "running" /\ showCommandOverlay
    /\ closeCommandOverlay
    /\ UNCHANGED <<phase, scripts, selectedIndex, selectionVars, processes,
                   processRefs, restartTimers, logVars, isPaused, destroyed,
                   modalVars, nodeExited, probeVars,
                   uiVars>>

\* the one-off 'data' handler writing to the main log, as startProcess's does
OverlayDataToLog(pid, chunk) ==
    /\ ~nodeExited
    /\ procs[pid].kind = "oneoff" /\ procs[pid].state = "live"
    /\ Len(commandOverlayOutput) < MaxOverlayLines
    /\ ChunkLines(chunk) # <<>>
    /\ SetLog(addOutputLines(CurLog, procs[pid].name, ChunkLines(chunk)))
    /\ UNCHANGED <<phase, scripts, selectedIndex, selectionVars, supervisorVars,
                   isPaused, destroyed, overlayVars, modalVars, nodeExited,
                   probeVars,
                   uiVars>>

\* stdout/stderr 'data' of a one-off child
OverlayData(pid, chunk) ==
    /\ ~nodeExited
    /\ procs[pid].kind = "oneoff" /\ procs[pid].state = "live"
    /\ Len(commandOverlayOutput) < MaxOverlayLines
    /\ commandOverlayOutput' = commandOverlayOutput \o ChunkLines(chunk)
    /\ UNCHANGED <<phase, scripts, selectedIndex, selectionVars, supervisorVars,
                   logVars, isPaused, destroyed, showCommandOverlay,
                   commandOverlayScript, commandOverlayStatus,
                   commandOverlayProcess, modalVars, nodeExited, probeVars,
                   uiVars>>

\* 'exit' of a one-off child
OverlayExit(pid, code) ==
    /\ ~nodeExited
    /\ procs[pid].kind = "oneoff" /\ procs[pid].state = "live"
    /\ code \in ExitCodesOf(procs[pid])
    /\ procs' = [procs EXCEPT ![pid].state = "exited"]
    /\ commandOverlayStatus' = IF code = "0" THEN "exited" ELSE "crashed"
    /\ commandOverlayOutput' =
           commandOverlayOutput \o <<<<>>, <<"Process exited with code ", code>>>>
    /\ commandOverlayProcess' = 0
    /\ UNCHANGED <<phase, scripts, selectedIndex, selectionVars, processes,
                   processRefs, restartTimers, logVars, isPaused, destroyed,
                   showCommandOverlay, commandOverlayScript, modalVars,
                   nodeExited, probeVars,
                   uiVars>>

\* ------------------------------------------- the running-phase capture modes
\* the variables the capture-mode handlers leave alone
CaptureFrame ==
    UNCHANGED <<phase, scripts, selectedIndex, selectionVars, supervisorVars,
                isPaused, destroyed, overlayVars, modalVars, nodeExited,
                probeVars, focusedPaneId, paneIdCounter, menuVars,
                settingsVars, configVars, pureVars>>

\* '/' taken as a command in the capture modes too
KeySlashKeepsModes ==
    /\ KeysLive /\ phase = "running"
    /\ ~showCommandOverlay /\ ~showRunCommandModal /\ ~showSplitMenu
    /\ isFilterMode' = TRUE
    /\ paneRoot' = SetFilter(paneRoot, focusedPaneId, <<>>)
    /\ UNCHANGED <<isNamingMode, namingModeText, isInputMode, inputModeText,
                   logVars, paneLayout>>
    /\ CaptureFrame

\* '/' in Normal mode: enter filter mode, the focused pane's filter emptied
KeySlash ==
    /\ NormalMode
    /\ isFilterMode' = TRUE
    /\ paneRoot' = SetFilter(paneRoot, focusedPaneId, <<>>)
    /\ UNCHANGED <<isNamingMode, namingModeText, isInputMode, inputModeText,
                   logVars, paneLayout>>
    /\ CaptureFrame

\* 'n' in Normal mode: enter naming mode, the text starting as the pane's name
KeyN ==
    /\ NormalMode
    /\ isNamingMode' = TRUE
    /\ LET focused == findPaneById(paneRoot, focusedPaneId)
       IN namingModeText' = IF focused.type = "pane" THEN focused.name ELSE <<>>
    /\ UNCHANGED <<isFilterMode, isInputMode, inputModeText, logVars, paneRoot,
                   paneLayout>>
    /\ CaptureFrame

\* 'i' in Normal mode: enter input mode if the selected process is running
KeyI ==
    /\ NormalMode
    /\ IF ScriptAt(selectedIndex) # ""
              /\ processes[ScriptAt(selectedIndex)].status = "running"
       THEN /\ isInputMode' = TRUE
            /\ inputModeText' = <<>>
       ELSE UNCHANGED <<isInputMode, inputModeText>>
    /\ UNCHANGED <<isFilterMode, isNamingMode, namingModeText, logVars, paneRoot,
                   paneLayout>>
    /\ CaptureFrame

\* proc.stdin.writable: the child has not exited
StdinWritable(s, scriptName) ==
    /\ s.processRefs[scriptName] # 0
    /\ s.procs[s.processRefs[scriptName]].state = "live"

\* sendInputToProcess(scriptName, input): the write, echoed into the log
sendInputToProcess(s, scriptName, input) ==
    IF StdinWritable(s, scriptName)
    THEN LET log == addOutputLine([lines |-> s.lines, total |-> s.total],
                                  scriptName, <<">", " ">> \o Trim(input))
         IN [s EXCEPT !.lines = log.lines, !.total = log.total]
    ELSE s

InputMode ==
    /\ KeysLive /\ phase = "running"
    /\ ~showCommandOverlay /\ ~showRunCommandModal /\ ~showSplitMenu
    /\ isInputMode

\* Escape in input mode
InputEscape ==
    /\ InputMode
    /\ isInputMode' = FALSE
    /\ inputModeText' = <<>>
    /\ UNCHANGED <<isFilterMode, isNamingMode, namingModeText, logVars, paneRoot,
                   paneLayout>>
    /\ CaptureFrame

\* Enter in input mode: the text goes to the selected process's stdin
InputEnter ==
    /\ InputMode
    /\ totalLinesReceived < MaxLines
    /\ IF ScriptAt(selectedIndex) # "" /\ Trim(inputModeText) # <<>>
       THEN LET s == sendInputToProcess(Sup, ScriptAt(selectedIndex),
                                        inputModeText \o <<"\n">>)
            IN SetLog([lines |-> s.lines, total |-> s.total])
       ELSE UNCHANGED logVars
    /\ isInputMode' = FALSE
    /\ inputModeText' = <<>>
    /\ UNCHANGED <<isFilterMode, isNamingMode, namingModeText, paneRoot,
                   paneLayout>>
    /\ CaptureFrame

\* Backspace in input mode
InputBackspace ==
    /\ InputMode
    /\ inputModeText' = SubSeq(inputModeText, 1, Len(inputModeText) - 1)
    /\ UNCHANGED <<isFilterMode, isNamingMode, namingModeText, isInputMode,
                   logVars, paneRoot, paneLayout>>
    /\ CaptureFrame

\* Space or a one-character key in input mode
InputChar(c) ==
    /\ InputMode
    /\ Len(inputModeText) < MaxTyped
    /\ inputModeText' = Append(inputModeText, c)
    /\ UNCHANGED <<isFilterMode, isNamingMode, namingModeText, isInputMode,
                   logVars, paneRoot, paneLayout>>
    /\ CaptureFrame

NamingMode ==
    /\ KeysLive /\ phase = "running"
    /\ ~showCommandOverlay /\ ~showRunCommandModal /\ ~showSplitMenu
    /\ ~isInputMode /\ isNamingMode

\* Escape in naming mode
NamingEscape ==
    /\ NamingMode
    /\ isNamingMode' = FALSE
    /\ namingModeText' = <<>>
    /\ UNCHANGED <<isFilterMode, isInputMode, inputModeText, logVars, paneRoot,
                   paneLayout>>
    /\ CaptureFrame

\* Enter in naming mode: the focused pane takes the name, the layout is saved
NamingEnter ==
    /\ NamingMode
    /\ IF findPaneById(paneRoot, focusedPaneId).type = "pane"
       THEN /\ paneRoot' = SetPaneField(paneRoot, focusedPaneId, "name",
                                        namingModeText)
            /\ paneLayout' = serializePaneTree(paneRoot')
       ELSE UNCHANGED <<paneRoot, paneLayout>>
    /\ isNamingMode' = FALSE
    /\ namingModeText' = <<>>
    /\ UNCHANGED <<isFilterMode, isInputMode, inputModeText, logVars>>
    /\ CaptureFrame

\* Backspace in naming mode
NamingBackspace ==
    /\ NamingMode
    /\ namingModeText' = SubSeq(namingModeText, 1, Len(namingModeText) - 1)
    /\ UNCHANGED <<isFilterMode, isNamingMode, isInputMode, inputModeText,
                   logVars, paneRoot, paneLayout>>
    /\ CaptureFrame

\* a one-character key in naming mode
NamingChar(c) ==
    /\ NamingMode
    /\ Len(namingModeText) < MaxTyped
    /\ namingModeText' = Append(namingModeText, c)
    /\ UNCHANGED <<isFilterMode, isNamingMode, isInputMode, inputModeText,
                   logVars, paneRoot, paneLayout>>
    /\ CaptureFrame

FilterMode ==
    /\ KeysLive /\ phase = "running"
    /\ ~showCommandOverlay /\ ~showRunCommandModal /\ ~showSplitMenu
    /\ ~isInputMode /\ ~isNamingMode /\ isFilterMode

\* the focused pane's filter, '' when it has none
FocusedFilter ==
    LET focused == findPaneById(paneRoot, focusedPaneId)
    IN IF focused.type = "pane" THEN focused.filter ELSE <<>>

\* Escape in filter mode: the filter is dropped
FilterEscape ==
    /\ FilterMode
    /\ isFilterMode' = FALSE
    /\ paneRoot' = SetFilter(paneRoot, focusedPaneId, <<>>)
    /\ UNCHANGED <<isNamingMode, namingModeText, isInputMode, inputModeText,
                   logVars, paneLayout>>
    /\ CaptureFrame

\* Enter in filter mode: the filter is kept
FilterEnter ==
    /\ FilterMode
    /\ isFilterMode' = FALSE
    /\ UNCHANGED <<isNamingMode, namingModeText, isInputMode, inputModeText,
                   logVars, paneRoot, paneLayout>>
    /\ CaptureFrame

\* Backspace in filter mode
FilterBackspace ==
    /\ FilterMode
    /\ paneRoot' = SetFilter(paneRoot, focusedPaneId,
                             SubSeq(FocusedFilter, 1, Len(FocusedFilter) - 1))
    /\ UNCHANGED <<captureVars, logVars, paneLayout>>
    /\ CaptureFrame

\* a one-character key in filter mode
FilterChar(c) ==
    /\ FilterMode
    /\ Len(FocusedFilter) < MaxTyped
    /\ paneRoot' = SetFilter(paneRoot, focusedPaneId, Append(FocusedFilter, c))
    /\ UNCHANGED <<captureVars, logVars, paneLayout>>
    /\ CaptureFrame

\* the one-character key names that a branch of the Normal-mode chain takes
\* before the custom shortcut branch is reached
BuiltinKeys == {"q", "\\", "|", "_", "p", "f", "/", "n", "k", "j", "h", "l",
                "r", "s", "o", "c", "1", "2", "3", "4", "5", "6", "7", "8",
                "9", "i", "e"}

\* 'x' is taken only while there is more than one pane to close
TakenByCommand(keyName) ==
    \/ keyName \in BuiltinKeys
    \/ keyName = "x" /\ Len(getAllPaneIds(paneRoot)) > 1

\* the shortcut branch resolving the script among the visible scripts only
KeyShortcutVisibleOnly(keyName) ==
    /\ NormalMode /\ CanSpawn
    /\ ~TakenByCommand(keyName)
    /\ LET scriptName == ShortcutOf(shortcuts, keyName)
       IN IF scriptName # "" /\ IsVisible(scriptName)
          THEN /\ executeCommand(scriptName)
               /\ UNCHANGED <<phase, scripts, selectedIndex, selectionVars,
                              processes, processRefs, restartTimers, logVars,
                              isPaused, destroyed, modalVars, nodeExited,
                              probeVars, uiVars>>
          ELSE UNCHANGED vars

\* a one-character key in Normal mode that no command takes: a custom
\* shortcut runs its script as a one-off command when allScripts has it,
\* and the key does nothing otherwise
KeyShortcut(keyName) ==
    /\ NormalMode /\ CanSpawn
    /\ ~TakenByCommand(keyName)
    /\ LET scriptName == ShortcutOf(shortcuts, keyName)
       IN IF scriptName # "" /\ scriptName \in Names
          THEN /\ executeCommand(scriptName)
               /\ UNCHANGED <<phase, scripts, selectedIndex, selectionVars,
                              processes, processRefs, restartTimers, logVars,
                              isPaused, destroyed, modalVars, nodeExited,
                              probeVars, uiVars>>
          ELSE UNCHANGED vars

\* a one-character key pressed in Normal mode, for the keys of ShortcutKeys:
\* 'q' is taken by the quit branch, any other key reaches the shortcut branch
NormalKey(keyName) ==
    \/ keyName = "q" /\ KeyQ
    \/ KeyShortcut(keyName)

\* ------------------------------------------- view keys of the running phase
\* 'f' in Normal mode: the focused pane's filter becomes the selected name
KeyF ==
    /\ NormalMode
    /\ IF ScriptAt(selectedIndex) # ""
              /\ findPaneById(paneRoot, focusedPaneId).type = "pane"
       THEN paneRoot' = SetFilter(paneRoot, focusedPaneId,
                                  NameText(ScriptAt(selectedIndex)))
       ELSE UNCHANGED paneRoot
    /\ UNCHANGED <<focusedPaneId, paneIdCounter, paneLayout, menuVars,
                   showLineNumbers>>
    /\ PaneFrame

\* the colours 'c' cycles through, "none" standing for null
ColorCycle == <<"none", "red", "yellow", "green", "blue", "cyan", "magenta">>

\* 'c' in Normal mode: the focused pane's colour filter moves on by one
KeyC ==
    /\ NormalMode
    /\ LET focused == findPaneById(paneRoot, focusedPaneId)
           currentIndex == IndexOf(ColorCycle, focused.colorFilter)
       IN IF focused.type = "pane"
          THEN paneRoot' = SetPaneField(paneRoot, focusedPaneId, "colorFilter",
                               ColorCycle[((currentIndex + 1) % Len(ColorCycle)) + 1])
          ELSE UNCHANGED paneRoot
    /\ UNCHANGED <<focusedPaneId, paneIdCounter, paneLayout, menuVars,
                   showLineNumbers>>
    /\ PaneFrame

\* toggleProcessVisibility(): hide or show a script in the focused pane
toggleProcessVisibility(ps, scriptName) ==
    LET focused == findPaneById(ps.root, ps.focused)
    IN IF scriptName = "" \/ ps.focused = 0 \/ focused.type # "pane" THEN ps
       ELSE savePaneLayout(
                [ps EXCEPT !.root = SetPaneField(ps.root, ps.focused, "hidden",
                    IF IndexOf(focused.hidden, scriptName) >= 0
                    THEN SelectSeq(focused.hidden, LAMBDA p : p # scriptName)
                    ELSE Append(focused.hidden, scriptName))])

\* Space in Normal mode
RunningSpace ==
    /\ NormalMode
    /\ SetPaneState(toggleProcessVisibility(PaneState, ScriptAt(selectedIndex)))
    /\ UNCHANGED <<menuVars, showLineNumbers>>
    /\ PaneFrame

\* a digit in Normal mode: select that script and toggle it
RunningDigit ==
    \E d \in 1..9 :
        /\ NormalMode
        /\ d - 1 < Len(scripts)
        /\ selectedIndex' = d - 1
        /\ SetPaneState(toggleProcessVisibility(PaneState, ScriptAt(d - 1)))
        /\ UNCHANGED <<phase, scripts, selectionVars, supervisorVars, logVars,
                       isPaused, destroyed, overlayVars, modalVars, nodeExited,
                       probeVars, captureVars, menuVars, settingsVars,
                       configVars, pureVars>>

\* ----------------------------------------------------------- spawns that fail
\* startProcess when spawn() cannot create the child: the handle returned has
\* no pid and emits 'error' on a later tick; the listeners and the two map
\* writes of startProcess are the same statements as for a child that started
startProcessSpawnError(s, scriptName) ==
    IF ~IsVisible(scriptName) THEN s
    ELSE LET pid == Len(s.procs) + 1
         IN [s EXCEPT
               !.procs = Append(@, [Spawned(scriptName, "main")
                                        EXCEPT !.state = "failed"]),
               !.processRefs[scriptName] = pid,
               !.processes[scriptName] =
                   [status |-> "running", pid |-> 0, exitCode |-> "none"]]

\* 's' in Normal mode on a command that is not running, the spawn failing
KeySSpawnFails ==
    /\ NormalMode /\ CanSpawn
    /\ ScriptAt(selectedIndex) # ""
    /\ processes[ScriptAt(selectedIndex)].status # "running"
    /\ SetSup(startProcessSpawnError(Sup, ScriptAt(selectedIndex)))
    /\ UNCHANGED <<phase, scripts, selectedIndex, selectionVars, restartTimers,
                   isPaused, destroyed, overlayVars, modalVars, nodeExited, probeVars,
                   uiVars>>

\* the handle's 'error' event: startProcess registered no 'error' listener,
\* so the emit throws, and no handler catches the exception
SpawnErrorEvent(pid) ==
    /\ ~nodeExited
    /\ procs[pid].state = "failed"
    /\ procs' = [procs EXCEPT ![pid].state = "exited"]
    /\ nodeExited' = TRUE
    /\ UNCHANGED <<phase, scripts, selectedIndex, selectionVars, processes,
                   processRefs, restartTimers, logVars, isPaused, destroyed,
                   overlayVars, modalVars, probeVars, uiVars>>

\* ------------------------------------------------------ the specification
Next ==
    \/ SelectionEnter
    \/ CountdownTick
    \/ SelectionSpace
    \/ SelectionDigit
    \/ SelectionMove
    \/ RunningMove
    \/ KeyR
    \/ \E n \in Names : RestartTimerFire(n)
    \/ KeyS
    \/ \E pid \in 1..Len(procs), chunk \in Chunks : ProcData(pid, chunk)
    \/ \E pid \in 1..Len(procs), code \in ExitCodes : ProcExit(pid, code)
    \/ KeyP
    \/ KeyEscape
    \/ \E direction \in {"home", "end", "pageup", "pagedown"} : KeyScroll(direction)
    \/ KeyQ
    \/ KeyCtrlC
    \/ HandleExit
    \/ KeyE
    \/ RunPickerClose
    \/ RunPickerMove
    \/ RunPickerEnter
    \/ OverlayEscape
    \/ \E pid \in 1..Len(procs), chunk \in Chunks : OverlayData(pid, chunk)
    \/ \E pid \in 1..Len(procs), code \in ExitCodes : OverlayExit(pid, code)
    \/ \E i \in 0..(Len(scripts) - 1) : SelectionClick(i)
    \/ \E direction \in {"vertical", "horizontal"} : KeySplit(direction)
    \/ KeyX
    \/ \E shift \in BOOLEAN : KeyTab(shift)
    \/ KeyBackslash
    \/ SplitMenuClose
    \/ SplitMenuMove
    \/ SplitMenuEnter
    \/ SelectionO
    \/ KeyO
    \/ SettingsExit
    \/ \E by \in {1, -1} : SettingsSwitch(by)
    \/ SettingsUp
    \/ SettingsDown
    \/ \E section \in {"ignore", "include"} : SettingsAddPattern(section)
    \/ PatternEscape
    \/ PatternEnter
    \/ PatternBackspace
    \/ \E c \in PatternChars : PatternChar(c)
    \/ SettingsDelete
    \/ SettingsToggle
    \/ ShortcutEscape
    \/ \E k \in ShortcutKeys : ShortcutAssign(k)
    \/ KeySlash
    \/ KeyN
    \/ KeyI
    \/ InputEscape
    \/ InputEnter
    \/ InputBackspace
    \/ \E c \in {"x", " "} : InputChar(c)
    \/ NamingEscape
    \/ NamingEnter
    \/ NamingBackspace
    \/ NamingChar("x")
    \/ FilterEscape
    \/ FilterEnter
    \/ FilterBackspace
    \/ FilterChar("x")
    \/ \E k \in ShortcutKeys : KeyShortcut(k)
    \/ KeyF
    \/ KeyC
    \/ RunningSpace
    \/ RunningDigit
    \/ KeySSpawnFails
    \/ \E pid \in 1..Len(procs) : SpawnErrorEvent(pid)

Spec == Init /\ [][Next]_vars

\* The supervisor alone: selection, start/stop/restart, exits, teardown.
\* 'data' events are left to SpecPause: they write the log only, and no
\* handler of the supervisor reads the log.
NextSup ==
    \/ SelectionEnter
    \/ CountdownTick
    \/ SelectionSpace
    \/ SelectionDigit
    \/ SelectionMove
    \/ RunningMove
    \/ KeyR
    \/ \E n \in Names : RestartTimerFire(n)
    \/ KeyS
    \/ \E pid \in 1..Len(procs), code \in ExitCodes : ProcExit(pid, code)
    \/ KeyQ
    \/ KeyCtrlC
    \/ HandleExit

SpecSup == Init /\ [][NextSup]_vars

\* The supervisor with the freeze: start/stop/restart, output, pause keys.
NextPause ==
    \/ SelectionEnter
    \/ SelectionSpace
    \/ RunningMove
    \/ KeyR
    \/ \E n \in Names : RestartTimerFire(n)
    \/ KeyS
    \/ \E pid \in 1..Len(procs), chunk \in Chunks : ProcData(pid, chunk)
    \/ \E pid \in 1..Len(procs), code \in ExitCodes : ProcExit(pid, code)
    \/ KeyP
    \/ KeyEscape
    \/ \E direction \in {"home", "end", "pageup", "pagedown"} : KeyScroll(direction)

SpecPause == Init /\ [][NextPause]_vars

\* The one-off overlay next to the supervised processes' output.  The chunks
\* cover a plain line, a blank chunk and a chunk that splits into two lines.
OverlayChunks == {<<"x">>, <<"\n">>, <<"x", "\n", "x">>}

NextOverlay ==
    \/ SelectionEnter
    \/ SelectionSpace
    \/ \E pid \in 1..Len(procs), chunk \in OverlayChunks : ProcData(pid, chunk)
    \/ KeyE
    \/ RunPickerClose
    \/ RunPickerMove
    \/ RunPickerEnter
    \/ OverlayEscape
    \/ \E pid \in 1..Len(procs), chunk \in OverlayChunks : OverlayData(pid, chunk)
    \/ \E pid \in 1..Len(procs), code \in ExitCodes : OverlayExit(pid, code)
    \/ HandleExit

SpecOverlay == Init /\ [][NextOverlay]_vars

\* The log on its own: any sequence of appends.
LogTexts == {<<"x">>, <<"x", "x">>}

LogAppend(processName, text) ==
    /\ Len(history) < MaxAppends
    /\ SetLog(addOutputLine(CurLog, processName, text))
    /\ history' = Append(history, [process |-> processName, text |-> text])
    /\ UNCHANGED <<phase, scripts, selectedIndex, selectionVars, supervisorVars,
                   isPaused, destroyed, overlayVars, modalVars, nodeExited,
                   pane, paneLines, widgetVars, uiVars>>

NextLog == \E n \in Names, text \in LogTexts : LogAppend(n, text)

SpecLog == Init /\ [][NextLog]_vars

\* The pane filter as a function of a pane and a log.
FilterTexts == {<<"E", "r", "r", "o", "r">>,
                <<"o", "k">>,
                <<"ESC", "[", "9", "1", "m", "e", "r", "r">>,
                <<"ESC", "[", "1", ";", "3", "2", "m", "o", "k">>}

FilterInputs == {<<>>, <<"e", "r", "r">>, <<"W", "E", "B">>}

Panes == [processes : SUBSET Names, hidden : SUBSET Names,
          filter : FilterInputs, colorFilter : {"none", "red", "green"}]

\* the logs the program can hold: up to maxOutputLines lines, numbered in order
FilterLogs ==
    {[i \in 1..Len(ls) |-> [process |-> ls[i][1], text |-> ls[i][2],
                            lineNumber |-> i]] :
        ls \in SeqsUpTo(Names \X FilterTexts, maxOutputLines)}

InitFilter ==
    /\ InitBase
    /\ \E log \in FilterLogs :
           /\ outputLines = log
           /\ totalLinesReceived = Len(log)
    /\ pane \in Panes
    /\ InitPanes
    /\ InitProbes

ApplyFilter ==
    /\ ~paneLines.done
    /\ paneLines' = [done |-> TRUE,
                     lines |-> getOutputLinesForPane(pane, outputLines)]
    /\ UNCHANGED <<phase, scripts, selectedIndex, selectionVars, supervisorVars,
                   logVars, isPaused, destroyed, overlayVars, modalVars,
                   nodeExited, history, pane, widgetVars, uiVars>>

NextFilter == ApplyFilter

SpecFilter == InitFilter /\ [][NextFilter]_vars

\* lineHasColor as a function of a text and a colour.
PlainChars == {";", "3", "1", "m"}

\* texts without an escape character
PlainTexts == SeqsUpTo(PlainChars, MaxPlain)

\* SGR attributes: bold, red, bright red, green
SgrCodes == {<<"1">>, <<"3", "1">>, <<"9", "1">>, <<"3", "2">>}

AttrLists == SeqsUpTo(SgrCodes, MaxAttrs) \ {<<>>}

\* the attribute list joined with semicolons
RECURSIVE JoinAttrs(_)
JoinAttrs(attrs) ==
    IF Len(attrs) = 1 THEN attrs[1]
    ELSE attrs[1] \o <<";">> \o JoinAttrs(Tail(attrs))

\* the text ESC [ attrs m x
SgrText(attrs) == <<"ESC", "[">> \o JoinAttrs(attrs) \o <<"m", "x">>

ColorInputs == PlainTexts \cup {SgrText(attrs) : attrs \in AttrLists}

InitColor ==
    /\ InitBase
    /\ outputLines = <<>>
    /\ totalLinesReceived = 0
    /\ pane = NoPane
    /\ InitPanes
    /\ treeProbe = NoTreeProbe
    /\ \E text \in ColorInputs, colorName \in ColorNames :
           colorProbe = [done |-> FALSE, text |-> text, colorName |-> colorName,
                         result |-> FALSE]

ApplyColor ==
    /\ ~colorProbe.done
    /\ colorProbe' = [colorProbe EXCEPT
                         !.done = TRUE,
                         !.result = lineHasColor(colorProbe.text,
                                                 colorProbe.colorName)]
    /\ UNCHANGED <<phase, scripts, selectedIndex, selectionVars, supervisorVars,
                   logVars, isPaused, destroyed, overlayVars, modalVars,
                   nodeExited, probeVars, paneVars, captureVars, menuVars,
                   settingsVars, configVars, treeProbe>>

NextColor == ApplyColor

SpecColor == InitColor /\ [][NextColor]_vars

\* The pane tree as a value: splitPane and closePane called on any pane of
\* a tree grown from one pane, and the tree taken through serializePaneTree
\* and deserializePaneTree.
Directions == {"vertical", "horizontal"}

\* the single panes a tree is grown from
FirstPanes ==
    {createPane(1, <<>>),
     [createPane(1, <<"web">>) EXCEPT !.name = <<"l", "o", "g">>,
                                     !.hidden = <<"api">>,
                                     !.filter = <<"e", "r", "r">>,
                                     !.colorFilter = "red"]}

InitTree ==
    /\ InitBase
    /\ outputLines = <<>>
    /\ totalLinesReceived = 0
    /\ pane = NoPane
    /\ InitProbes
    /\ paneRoot \in FirstPanes
    /\ focusedPaneId = 0
    /\ paneIdCounter = 1
    /\ paneLayout = NullNode

TreeFrame ==
    UNCHANGED <<phase, scripts, selectedIndex, selectionVars, supervisorVars,
                logVars, isPaused, destroyed, overlayVars, modalVars,
                nodeExited, probeVars, focusedPaneId, paneLayout, captureVars,
                menuVars, settingsVars, configVars, colorProbe>>

TreeSplit(paneId, direction) ==
    /\ ~treeProbe.done
    /\ paneIdCounter < MaxPanes
    /\ paneRoot' = splitPane(paneRoot, paneId, direction, paneIdCounter + 1)
    /\ paneIdCounter' = IF IndexOf(getAllPaneIds(paneRoot), paneId) >= 0
                        THEN paneIdCounter + 1 ELSE paneIdCounter
    /\ UNCHANGED treeProbe
    /\ TreeFrame

TreeClose(paneId) ==
    /\ ~treeProbe.done
    /\ paneRoot' = closePane(paneRoot, paneId)
    /\ UNCHANGED <<paneIdCounter, treeProbe>>
    /\ TreeFrame

TreeRoundTrip ==
    /\ ~treeProbe.done
    /\ treeProbe' = [done |-> TRUE,
                     tree |-> deserializePaneTree(serializePaneTree(paneRoot),
                                                  paneIdCounter)]
    /\ UNCHANGED <<paneRoot, paneIdCounter>>
    /\ TreeFrame

\* splits only
NextSplit == \E paneId \in 1..MaxPanes, direction \in Directions :
                 TreeSplit(paneId, direction)

SpecSplit == InitTree /\ [][NextSplit]_vars

NextTree ==
    \/ \E paneId \in 1..MaxPanes, direction \in Directions :
           TreeSplit(paneId, direction)
    \/ \E paneId \in 1..MaxPanes : TreeClose(paneId)
    \/ TreeRoundTrip

SpecTree == InitTree /\ [][NextTree]_vars

\* The panes of the running screen: splits, closes, Tab and the palette,
\* on a first run and on a run that starts from a saved two-pane layout.
SavedLayouts ==
    {NullNode,
     [type |-> "split", direction |-> "vertical", sizes |-> <<One, One>>,
      children |-> <<serializePaneTree(createPane(0, <<>>)),
                     serializePaneTree(createPane(0, <<"web">>))>>]}

InitSaved ==
    /\ InitBase
    /\ outputLines = <<>>
    /\ totalLinesReceived = 0
    /\ pane = NoPane
    /\ InitProbes
    /\ paneRoot = NullNode
    /\ focusedPaneId = 0
    /\ paneIdCounter = 0
    /\ paneLayout \in SavedLayouts

NextPanes ==
    \/ SelectionEnter
    \/ \E direction \in Directions : KeySplit(direction)
    \/ KeyX
    \/ \E shift \in BOOLEAN : KeyTab(shift)
    \/ KeyBackslash
    \/ SplitMenuClose
    \/ SplitMenuMove
    \/ SplitMenuEnter

SpecPanes == InitSaved /\ [][NextPanes]_vars

\* ---------------------------------------- selection, countdown and settings
NextSettings ==
    \/ SelectionEnter
    \/ CountdownTick
    \/ SelectionSpace
    \/ SelectionDigit
    \/ \E i \in 0..(Len(scripts) - 1) : SelectionClick(i)
    \/ SelectionMove
    \/ SelectionO
    \/ KeyO
    \/ SettingsExit
    \/ \E by \in {1, -1} : SettingsSwitch(by)
    \/ SettingsUp
    \/ SettingsDown
    \/ SettingsToggle
    \/ SettingsDelete
    \/ ShortcutEscape
    \/ \E k \in ShortcutKeys : ShortcutAssign(k)

SpecSettings == Init /\ [][NextSettings]_vars

\* ------------------------------------------------- capture modes and menus
\* Every handler that sets or clears a capture flag, opens or closes the
\* palette, the run picker or the overlay, or changes the phase, and the keys
\* typed in the running phase's capture modes.
InputChars == {"x", " "}


NextModes ==
    \/ SelectionSpace
    \/ SelectionEnter
    \/ KeyO
    \/ SettingsExit
    \/ SettingsSwitch(1)
    \/ \E section \in {"ignore", "include"} : SettingsAddPattern(section)
    \/ PatternEscape
    \/ PatternEnter
    \/ SettingsToggle
    \/ ShortcutEscape
    \/ ShortcutAssign("z")
    \/ KeySlash
    \/ KeyN
    \/ KeyI
    \/ InputEscape
    \/ InputEnter
    \/ InputBackspace
    \/ \E c \in InputChars : InputChar(c)
    \/ NamingEscape
    \/ NamingEnter
    \/ FilterEscape
    \/ FilterEnter
    \/ FilterBackspace
    \/ FilterChar("x")
    \/ KeyBackslash
    \/ SplitMenuClose
    \/ KeyE
    \/ RunPickerClose
    \/ RunPickerEnter
    \/ KeyShortcut("z")
    \/ OverlayEscape

SpecModes == Init /\ [][NextModes]_vars

\* ------------------------------------------- view, freeze and saved layout
\* The keys of the running phase that scroll, filter, name, hide and colour
\* the focused pane, and the freeze.
NextView ==
    \/ SelectionSpace
    \/ SelectionEnter
    \/ RunningMove
    \/ KeyP
    \/ KeyEscape
    \/ \E direction \in {"home", "end", "pageup", "pagedown"} : KeyScroll(direction)
    \/ KeyF
    \/ KeyC
    \/ KeySlash
    \/ FilterChar("x")
    \/ FilterBackspace
    \/ FilterEnter
    \/ FilterEscape
    \/ KeyN
    \/ NamingChar("x")
    \/ NamingBackspace
    \/ NamingEnter
    \/ NamingEscape
    \/ RunningSpace
    \/ RunningDigit

SpecView == Init /\ [][NextView]_vars

\* ------------------------------------------------------- custom shortcuts
\* The settings screen's shortcut assignment and the keys of ShortcutKeys
\* pressed in the running phase, started with and without saved shortcuts:
\* one of the saved tables names a script that is no longer in the manifest.
SavedShortcuts == {<<>>, <<[key |-> "z", script |-> "gone"]>>}

InitShortcuts ==
    /\ InitCore
    /\ shortcuts \in SavedShortcuts
    /\ outputLines = <<>>
    /\ totalLinesReceived = 0
    /\ pane = NoPane
    /\ InitPanes
    /\ InitProbes

NextShortcuts ==
    \/ SelectionEnter
    \/ SelectionO
    \/ KeyO
    \/ \E by \in {-1, 1} : SettingsSwitch(by)
    \/ SettingsDown
    \/ SettingsToggle
    \/ SettingsDelete
    \/ ShortcutEscape
    \/ \E k \in ShortcutKeys : ShortcutAssign(k)
    \/ SettingsExit
    \/ \E k \in ShortcutKeys : NormalKey(k)
    \/ OverlayEscape

SpecShortcuts == InitShortcuts /\ [][NextShortcuts]_vars

\* ----------------------------------------------------------- failed spawns
\* The supervisor with a spawn that can fail.
NextSpawn ==
    \/ SelectionEnter
    \/ SelectionSpace
    \/ SelectionMove
    \/ RunningMove
    \/ KeyS
    \/ KeySSpawnFails
    \/ \E pid \in 1..Len(procs) : SpawnErrorEvent(pid)
    \/ \E pid \in 1..Len(procs), code \in ExitCodes : ProcExit(pid, code)
    \/ \E pid \in 1..Len(procs), chunk \in Chunks : ProcData(pid, chunk)

SpecSpawn == Init /\ [][NextSpawn]_vars

\* ---------------------------------------------------------- printable keys
\* One-character keys that are commands of Normal mode, pressed in every
\* mode: handleInput and handleSettingsInput route the key to the capture
\* mode that is active, and to the command only when none is.
PrintableKeys == {"q", "s", "|", "e", "z"}

\* the keypress of a one-character key, by the branch that takes it
PrintableKey(keyName) ==
    \/ InputChar(keyName)
    \/ NamingChar(keyName)
    \/ FilterChar(keyName)
    \/ keyName \in ShortcutKeys /\ ShortcutAssign(keyName)
    \/ PatternChar(keyName)
    \/ keyName = "q" /\ (KeyQ \/ SettingsExit \/ RunPickerClose)
    \/ keyName = "s" /\ KeyS
    \/ keyName = "|" /\ KeySplit("vertical")
    \/ keyName = "e" /\ KeyE
    \/ KeyShortcut(keyName)

NextKeys ==
    \/ SelectionEnter
    \/ SelectionO
    \/ KeyO
    \/ SettingsSwitch(1)
    \/ \E section \in {"ignore", "include"} : SettingsAddPattern(section)
    \/ SettingsToggle
    \/ PatternEscape
    \/ ShortcutEscape
    \/ KeySlash
    \/ KeyN
    \/ KeyI
    \/ FilterEscape
    \/ NamingEscape
    \/ InputEscape
    \/ OverlayEscape
    \/ \E k \in PrintableKeys : PrintableKey(k)

SpecKeys == Init /\ [][NextKeys]_vars

\* --------------------------------------------------- incomplete saved layouts
\* Startup from a config file whose paneLayout lacks optional fields: a pane
\* with its type only, a split without sizes, and a split without children.
PartialLayouts ==
    {[type |-> "pane"],
     [type |-> "pane", processes |-> <<"web">>, filter |-> <<"e">>],
     [type |-> "split", direction |-> "vertical",
      children |-> <<[type |-> "pane"],
                     [type |-> "pane", hidden |-> <<"api">>]>>],
     [type |-> "split", direction |-> "horizontal", sizes |-> <<One, One>>]}

InitLayout ==
    /\ InitBase
    /\ outputLines = <<>>
    /\ totalLinesReceived = 0
    /\ pane = NoPane
    /\ InitProbes
    /\ paneRoot = NullNode
    /\ focusedPaneId = 0
    /\ paneIdCounter = 0
    /\ paneLayout \in PartialLayouts

NextLayout ==
    \/ SelectionSpace
    \/ SelectionMove
    \/ SelectionEnter
    \/ CountdownTick
    \/ \E direction \in Directions : KeySplit(direction)
    \/ KeyX
    \/ \E shift \in BOOLEAN : KeyTab(shift)

SpecLayout == InitLayout /\ [][NextLayout]_vars

\* ------------------------------------------- the scroll boxes of the panes
\* The handlers of the running screen together with what they draw: a
\* scroll box is the sequence of the lineNumbers of the lines added to it.
LineNumbers(lines) == MapSeq(Len(lines), LAMBDA i : lines[i].lineNumber)

Widgets == [boxes |-> paneScrollBoxes, counts |-> paneLineCount]

SetWidgets(w) ==
    /\ paneScrollBoxes' = w.boxes
    /\ paneLineCount' = w.counts

\* the lineNumbers of getOutputLinesForPane(findPaneById(root, id)): the
\* pane's arrays are consulted with includes() only
PaneLineNumbers(root, id, log) ==
    LET p == findPaneById(root, id)
    IN LineNumbers(getOutputLinesForPane(
           [processes |-> {p.processes[i] : i \in 1..Len(p.processes)},
            hidden |-> {p.hidden[i] : i \in 1..Len(p.hidden)},
            filter |-> p.filter, colorFilter |-> p.colorFilter], log))

\* buildRunningUI(): paneScrollBoxes.clear(), then one scroll box per pane
\* of the tree, filled by buildPaneOutput; paneLineCount is not written
buildRunningUI(w, root, log) ==
    LET ids == getAllPaneIds(root)
    IN [w EXCEPT !.boxes =
           [id \in {ids[i] : i \in 1..Len(ids)} |->
               PaneLineNumbers(root, id, log)]]

\* scrollBox.content.add(line) for each new line, the oldest child removed
\* when the box holds more than maxOutputLines
RECURSIVE AddRolling(_, _)
AddRolling(box, newLines) ==
    IF newLines = <<>> THEN box
    ELSE LET added == Append(box, Head(newLines))
         IN AddRolling(IF Len(added) > maxOutputLines THEN Tail(added) ELSE added,
                       Tail(newLines))

\* updateRunningUI(): append to each box the lines numbered above the
\* pane's paneLineCount, or build the screen when there is no box
updateRunningUI(w, root, log) ==
    IF DOMAIN w.boxes # {}
    THEN LET ids == getAllPaneIds(root)
             found(id) == \E i \in 1..Len(ids) : ids[i] = id
             newLines(id) ==
                 SelectSeq(PaneLineNumbers(root, id, log),
                           LAMBDA n : n > Or(w.counts, id, 0))
             drawn == {id \in DOMAIN w.boxes : found(id) /\ newLines(id) # <<>>}
         IN [boxes |-> [id \in DOMAIN w.boxes |->
                           IF id \in drawn
                           THEN AddRolling(w.boxes[id], newLines(id))
                           ELSE w.boxes[id]],
             counts |-> [id \in DOMAIN w.counts \cup drawn |->
                            IF id \in drawn
                            THEN newLines(id)[Len(newLines(id))]
                            ELSE w.counts[id]]]
    ELSE buildRunningUI(w, root, log)

\* render(): nothing once destroyed; only the running phase draws the panes
render(w, ph, root, log) ==
    IF ~destroyed /\ ph = "running" THEN updateRunningUI(w, root, log) ELSE w

\* Enter in the selection phase: startProcesses() ends with render(), and
\* the keypress listener calls render() once more
SelectionEnterDrawn ==
    /\ KeysLive /\ phase = "selection"
    /\ countdownInterval' = FALSE
    /\ startProcesses
    /\ SetWidgets(IF nodeExited' THEN Widgets
                  ELSE render(render(Widgets, phase', paneRoot', outputLines'),
                              phase', paneRoot', outputLines'))
    /\ UNCHANGED <<scripts, selectedScripts, countdown, isPaused, destroyed,
                   overlayVars, modalVars, history, pane, paneLines, paneLayout,
                   captureVars, menuVars, settingsVars, configVars, pureVars>>

\* addOutputLine for each line of a chunk, with its scheduleRender() when
\* the screen is not frozen
RECURSIVE addOutputLinesDrawn(_, _, _)
addOutputLinesDrawn(st, processName, texts) ==
    IF texts = <<>> THEN st
    ELSE LET log == addOutputLine(st.log, processName, Head(texts))
         IN addOutputLinesDrawn(
                [log |-> log,
                 w |-> IF isPaused THEN st.w
                       ELSE render(st.w, phase, paneRoot, log.lines)],
                processName, Tail(texts))

\* stdout/stderr 'data' of a supervised child
ProcDataDrawn(pid, chunk) ==
    /\ ~nodeExited
    /\ procs[pid].kind = "main" /\ procs[pid].state = "live"
    /\ procs[pid].flowing
    /\ totalLinesReceived < MaxLines
    /\ LET st == addOutputLinesDrawn([log |-> CurLog, w |-> Widgets],
                                     procs[pid].name, ChunkLines(chunk))
       IN /\ SetLog(st.log)
          /\ SetWidgets(st.w)
    /\ UNCHANGED <<phase, scripts, selectedIndex, selectionVars, supervisorVars,
                   isPaused, destroyed, overlayVars, modalVars, nodeExited,
                   history, pane, paneLines, uiVars>>

\* buildRunningUI() at the end of a key's branch in handleInput, then the
\* render() of the keypress listener
Redraw(root, log) ==
    SetWidgets(render(buildRunningUI(Widgets, root, log), "running", root, log))

\* '|' and '_' in Normal mode
KeySplitDrawn(direction) ==
    /\ NormalMode
    /\ paneIdCounter < MaxUiPanes
    /\ SetPaneState(splitCurrentPane(PaneState, direction))
    /\ Redraw(paneRoot', outputLines)
    /\ UNCHANGED <<phase, scripts, selectedIndex, selectionVars, supervisorVars,
                   logVars, isPaused, destroyed, overlayVars, modalVars,
                   nodeExited, history, pane, paneLines, captureVars, menuVars,
                   settingsVars, configVars, pureVars>>

\* 'p' in Normal mode: toggle the freeze
KeyPDrawn ==
    /\ NormalMode
    /\ isPaused' = ~isPaused
    /\ procs' = updateStreamPauseState(procs, processRefs, isPaused')
    /\ Redraw(paneRoot, outputLines)
    /\ UNCHANGED <<phase, scripts, selectedIndex, selectionVars, processes,
                   processRefs, restartTimers, logVars, destroyed, overlayVars,
                   modalVars, nodeExited, history, pane, paneLines, uiVars>>

\* Escape or 'q' in the settings opened from the running phase
SettingsExitDrawn ==
    /\ SettingsNormal
    /\ previousPhase = "running"
    /\ applyFilters(ignore, include)
    /\ selectedIndex' = IF selectedIndex >= Len(scripts')
                        THEN Max(0, Len(scripts') - 1) ELSE selectedIndex
    /\ phase' = "running"
    /\ Redraw(paneRoot, outputLines)
    /\ UNCHANGED <<countdown, countdownInterval, settingsVars, configVars,
                   supervisorVars, logVars, isPaused, destroyed, overlayVars,
                   modalVars, nodeExited, history, pane, paneLines, paneVars,
                   captureVars, menuVars, pureVars>>

\* the running screen and what it shows: start, output, splits, the freeze
\* and a visit to the settings
NextRender ==
    \/ SelectionSpace
    \/ SelectionMove
    \/ SelectionEnterDrawn
    \/ \E pid \in 1..Len(procs), chunk \in Chunks : ProcDataDrawn(pid, chunk)
    \/ \E direction \in {"vertical", "horizontal"} : KeySplitDrawn(direction)
    \/ KeyPDrawn
    \/ KeyO
    \/ SettingsExitDrawn

SpecRender == Init /\ [][NextRender]_vars

\* ------------------------------------------------------------ the claims
MainPids(n) == {pid \in 1..Len(procs) :
                   procs[pid].kind = "main" /\ procs[pid].name = n}

\* a child that has not exited and was never sent a signal
Untouched(pid) == procs[pid].state = "live" /\ procs[pid].sig = "none"

\* the step spawns a child for n
Spawns(n) == Len(procs') = Len(procs) + 1 /\ procs'[Len(procs')].name = n

\* C1: at most one live process per command name: in every reachable state
\* no name has two supervised children that are both alive and unsignalled.
C1_OneLivePerName ==
    \A n \in Names : Cardinality({pid \in MainPids(n) : Untouched(pid)}) <= 1

\* the step is restartProcess(n) called while n is running
RestartOfRunning(n) ==
    KeyR /\ ScriptAt(selectedIndex) = n /\ processes[n].status = "running"

StopOfTracked(n) ==
    /\ ScriptAt(selectedIndex) = n
    /\ processRefs[n] # 0
    /\ KeyR \/ (KeyS /\ processes[n].status = "running")

\* C3: after stopProcess(name) the status is 'stopped', the handle is gone
\* and a 'Process stopped' line of name is in the log; and a status of
\* 'stopped' stays 'stopped' over every step that does not spawn name.
C3_StoppedStaysStopped ==
    [][\A n \in Names :
        /\ StopOfTracked(n) =>
              /\ processes'[n].status = "stopped"
              /\ processRefs'[n] = 0
              /\ \E i \in 1..Len(outputLines') :
                     /\ outputLines'[i].process = n
                     /\ outputLines'[i].text = <<"Process stopped">>
        /\ (processes[n].status = "stopped" /\ ~Spawns(n)) =>
              processes'[n].status = "stopped"
      ]_vars

\* C4: a stopProcess(n) call leaves every other command's RunState, tracked
\* handle and children as they were.
C4_StopFrame ==
    [][\A n \in Names :
        StopOfTracked(n) =>
            \A m \in Names \ {n} :
                /\ processes'[m] = processes[m]
                /\ processRefs'[m] = processRefs[m]
                /\ \A pid \in MainPids(m) : procs'[pid] = procs[pid]
      ]_vars

\* C4 witness: one command has been stopped while the other is running.
C4_Witness ==
    \E n \in Names, m \in Names :
        /\ n # m
        /\ processes[n].status = "stopped"
        /\ \E pid \in MainPids(n) : procs[pid].sig = "SIGTERM"
        /\ processes[m].status = "running"
        /\ processRefs[m] # 0 /\ Untouched(processRefs[m])

\* C5: once cleanup has run, every child that has not exited has been sent
\* a kill (so none is spawned after teardown and none escaped it).
C5_TeardownKillsAll ==
    destroyed =>
        \A pid \in 1..Len(procs) :
            procs[pid].state = "live" => procs[pid].sig # "none"

\* C6: while isPaused is true the streams of every live tracked child are
\* paused, whenever the child was started.
C6_FrozenStreamsPaused ==
    isPaused =>
        \A n \in Names :
            (processRefs[n] # 0 /\ procs[processRefs[n]].state = "live")
                => ~procs[processRefs[n]].flowing

\* C7: whenever the overlay is closed, every one-off child that is still
\* alive has been sent a kill.
C7_ClosedOverlayKilled ==
    ~showCommandOverlay =>
        \A pid \in 1..Len(procs) :
            (procs[pid].kind = "oneoff" /\ procs[pid].state = "live")
                => procs[pid].sig # "none"

\* the step is executeCommand or one of the callbacks it installs
OneOffStep ==
    \/ RunPickerEnter
    \/ \E pid \in 1..Len(procs), chunk \in Chunks : OverlayData(pid, chunk)
    \/ \E pid \in 1..Len(procs), code \in ExitCodes : OverlayExit(pid, code)

\* C8: executeCommand and its stdout, stderr and exit callbacks leave the
\* main log and totalLinesReceived as they were.
C8_OneOffNeverLogs ==
    [][OneOffStep => UNCHANGED <<outputLines, totalLinesReceived>>]_vars

\* C8 witness: a one-off command has written output and exited while the
\* main log holds a line of a supervised process.
C8_Witness ==
    /\ showCommandOverlay
    /\ commandOverlayStatus # "running"
    /\ Len(commandOverlayOutput) > 2
    /\ outputLines # <<>>

\* C9: after k appends the log holds min(k, capacity) lines, they are the
\* most recent appends in arrival order, and line i of the k appends carries
\* lineNumber i (so the numbers rise strictly and none is used twice).
C9_LogBound ==
    LET k == Len(history)
        len == Len(outputLines)
    IN /\ len = Min(k, maxOutputLines)
       /\ totalLinesReceived = k
       /\ \A i \in 1..len :
              /\ outputLines[i].process = history[k - len + i].process
              /\ outputLines[i].text = history[k - len + i].text
              /\ outputLines[i].lineNumber = k - len + i

\* C9 witness: more lines were appended than the log holds.
C9_Witness ==
    /\ Len(history) > maxOutputLines
    /\ Len(outputLines) = maxOutputLines
    /\ outputLines[1].lineNumber > 1

\* the four conditions of the claim on one line
PaneKeeps(p, line) ==
    /\ p.processes = {} \/ line.process \in p.processes
    /\ line.process \notin p.hidden
    /\ \/ p.filter = <<>>
       \/ Includes(toLowerCase(line.text), toLowerCase(p.filter))
       \/ Includes(toLowerCase(NameText(line.process)), toLowerCase(p.filter))
    /\ p.colorFilter = "none" \/ lineHasColor(line.text, p.colorFilter)

\* C10: getOutputLinesForPane returns exactly the log lines that meet all
\* four conditions, each once, in log order.
C10_FilterConjunctive ==
    paneLines.done =>
        LET res == paneLines.lines
        IN /\ \A i \in 1..Len(res) :
                  /\ PaneKeeps(pane, res[i])
                  /\ \E j \in 1..Len(outputLines) : outputLines[j] = res[i]
           /\ \A j \in 1..Len(outputLines) :
                  PaneKeeps(pane, outputLines[j])
                      => \E i \in 1..Len(res) : res[i] = outputLines[j]
           /\ \A i \in 1..(Len(res) - 1) :
                  res[i].lineNumber < res[i + 1].lineNumber

\* C10 witness: a pane with a process scope, a text filter and a colour
\* filter has kept one line of a log and dropped another.
C10_Witness ==
    /\ paneLines.done
    /\ pane.processes # {} /\ pane.filter # <<>> /\ pane.colorFilter # "none"
    /\ Len(outputLines) = 2
    /\ Len(paneLines.lines) = 1

\* C11: a text without an escape character matches no colour filter.
C11_PlainTextNoColor ==
    (/\ colorProbe.done
     /\ \A i \in 1..Len(colorProbe.text) : colorProbe.text[i] # "ESC")
        => ~colorProbe.result

\* the attribute list holds the normal or the bright code of the colour
HasFamilyCode(attrs, colorName) ==
    LET codes == getAnsiColorCodes(colorName)
    IN \E i \in 1..Len(attrs), k \in 1..Len(codes) : attrs[i] = codes[k]

\* C12: a line with one SGR sequence matches a colour filter exactly when the
\* sequence's attribute list holds one of the colour's two codes, at any
\* position of the list.
C12_SgrCodeAnywhere ==
    colorProbe.done =>
        \A attrs \in AttrLists :
            colorProbe.text = SgrText(attrs)
                => (colorProbe.result <=> HasFamilyCode(attrs, colorProbe.colorName))

\* no split below node has a direct child that is a split of its direction
RECURSIVE NoSameDirectionChild(_)
NoSameDirectionChild(node) ==
    node.type = "split" =>
        \A i \in 1..Len(node.children) :
            /\ ~(/\ node.children[i].type = "split"
                 /\ node.children[i].direction = node.direction)
            /\ NoSameDirectionChild(node.children[i])

\* C13: after any sequence of splitPane calls on a tree grown from one pane,
\* no split node has a direct child split of the same direction.
C13_SplitsFlattened == NoSameDirectionChild(paneRoot)

\* C13 witness: a split was flattened into its parent (three children) next
\* to a child split of the other direction.
C13_Witness ==
    /\ paneRoot.type = "split"
    /\ Len(paneRoot.children) = 3
    /\ \E i \in 1..3 : paneRoot.children[i].type = "split"

\* the two trees agree on everything that is persisted
RECURSIVE SameUpToIds(_, _)
SameUpToIds(a, b) ==
    /\ a.type = b.type
    /\ a.type = "pane" =>
           /\ a.name = b.name
           /\ a.processes = b.processes
           /\ a.hidden = b.hidden
           /\ a.filter = b.filter
           /\ a.colorFilter = b.colorFilter
    /\ a.type = "split" =>
           /\ a.direction = b.direction
           /\ a.sizes = b.sizes
           /\ Len(a.children) = Len(b.children)
           /\ \A i \in 1..Len(a.children) :
                  SameUpToIds(a.children[i], b.children[i])

\* C15: deserializePaneTree(serializePaneTree(t)) has the shape, the sizes
\* and, at each leaf, the name, processes, hidden, filter and colorFilter
\* of t, for every t grown from one pane by splitPane and closePane.
C15_RoundTrip == treeProbe.done => SameUpToIds(paneRoot, treeProbe.tree)

\* C15 witness: the round trip of a tree with a nested split, uneven sizes
\* and a pane that has a name and a hidden list; the ids are new.
C15_Witness ==
    /\ treeProbe.done
    /\ paneRoot.type = "split"
    /\ \E i \in 1..Len(paneRoot.children) :
           /\ paneRoot.children[i].type = "split"
           /\ paneRoot.sizes[i] # One
    /\ \E i \in 1..Len(paneRoot.children) :
           /\ paneRoot.children[i].type = "pane"
           /\ paneRoot.children[i].name # <<>>
           /\ paneRoot.children[i].hidden # <<>>
    /\ treeProbe.tree # paneRoot

\* C14: during the running phase the pane tree holds at least one pane:
\* paneRoot is not null and getAllPaneIds(paneRoot) is not empty.
C14_NeverZeroPanes ==
    phase = "running" =>
        /\ paneRoot.type # "null"
        /\ Len(getAllPaneIds(paneRoot)) >= 1

\* C14 witness: panes were made and closed again until one was left.
C14_Witness ==
    /\ phase = "running"
    /\ paneIdCounter >= 3
    /\ Len(getAllPaneIds(paneRoot)) = 1
    /\ paneLayout = serializePaneTree(paneRoot)

\* the pane `by` places after the focused one in pre-order, wrapping
FocusMovedBy(by) ==
    LET allPanes == getAllPaneIds(paneRoot)
        currentIdx == IndexOf(allPanes, focusedPaneId)
    IN (Len(allPanes) > 1 /\ currentIdx >= 0)
           => focusedPaneId' =
                  allPanes[((currentIdx + by + Len(allPanes)) % Len(allPanes)) + 1]

\* C16: in Normal mode Tab moves the focus to the next pane in pre-order and
\* Shift+Tab moves it to the previous one, each wrapping around.
C16_TabDirections ==
    [][/\ KeyTab(FALSE) => FocusMovedBy(1)
       /\ KeyTab(TRUE) => FocusMovedBy(-1)]_vars

\* C17: in the selection phase every toggle of a checklist entry (Space, a
\* digit, a mouse click) sets the countdown back to COUNTDOWN_SECONDS.
C17_ToggleResetsCountdown ==
    [][(phase = "selection" /\ phase' = "selection"
            /\ selectedScripts' # selectedScripts)
       => countdown' = COUNTDOWN_SECONDS]_vars

\* a script was toggled on after the countdown had run down: the countdown
\* is full again
C17_Witness ==
    /\ phase = "selection"
    /\ selectedScripts = {"web"}
    /\ selectedIndex = 0
    /\ countdown = COUNTDOWN_SECONDS
    /\ countdownInterval
    /\ previousPhase = "selection"
    /\ settingsSection = "display"

AnySpawned == procs # <<>> \/ \E n \in Names : processRefs[n] # 0

\* C18: the phase leaves selection for running only by Enter or by the
\* countdown reaching zero; nothing is spawned while the phase is selection;
\* while Settings is open from the selection phase the countdown is stopped,
\* keeps its value and the phase does not become running.
C18_StartTriggers ==
    [][/\ (phase = "selection" /\ phase' = "running")
          => (SelectionEnter \/ (CountdownTick /\ countdown' <= 0))
       /\ phase' = "selection" => ~AnySpawned'
       /\ (phase = "settings" /\ previousPhase = "selection")
          => /\ ~countdownInterval
             /\ phase' = "settings" => countdown' = countdown
             /\ phase' # "running"
             /\ ~AnySpawned']_vars

\* Settings is open from the selection phase with the countdown part-way
C18_Witness ==
    /\ phase = "settings"
    /\ previousPhase = "selection"
    /\ ~countdownInterval
    /\ countdown = COUNTDOWN_SECONDS - 2
    /\ settingsSection = "scripts"

HasBeenRunning == paneRoot.type # "null"

\* C19: leaving Settings returns to the phase that opened it, and once the
\* phase has been running it is never selection again.
C19_NoReturnToSelection ==
    [][/\ (phase # "settings" /\ phase' = "settings") => previousPhase' = phase
       /\ (phase = "settings" /\ phase' # "settings") => phase' = previousPhase
       /\ HasBeenRunning => phase' # "selection"
       /\ phase = "running" => HasBeenRunning]_vars

\* Settings was opened from the running phase and left again
C19_Witness ==
    /\ phase = "running"
    /\ previousPhase = "running"
    /\ settingsSection = "scripts"
    /\ procs # <<>>

\* the capture flags that are set
CaptureFlags ==
    {f \in {"filter", "naming", "input", "pattern", "shortcut"} :
        \/ f = "filter" /\ isFilterMode
        \/ f = "naming" /\ isNamingMode
        \/ f = "input" /\ isInputMode
        \/ f = "pattern" /\ isAddingPattern
        \/ f = "shortcut" /\ isAssigningShortcut}

\* C20: at most one of isFilterMode, isNamingMode, isInputMode,
\* isAddingPattern and isAssigningShortcut is true, and none of them is true
\* while the command palette, the run picker or the one-off overlay is open.
C20_OneCaptureMode ==
    /\ Cardinality(CaptureFlags) <= 1
    /\ (showSplitMenu \/ showRunCommandModal \/ showCommandOverlay)
           => CaptureFlags = {}

\* input mode is on with a key typed, after a shortcut was assigned in Settings opened from
\* the running phase
C20_Witness ==
    /\ phase = "running"
    /\ isInputMode
    /\ inputModeText = <<"x">>
    /\ previousPhase = "running"
    /\ shortcuts # <<>>
    /\ CaptureFlags = {"input"}

InTree(paneId) == IndexOf(getAllPaneIds(paneRoot), paneId) >= 0

\* C30: splitPane and closePane called with a pane id that is not in the tree
\* return a tree equal to the input: same shape, same panes, same sizes.
C30_AbsentIdNoop ==
    [][\A paneId \in 1..(MaxPanes + 1) :
          ~InTree(paneId) =>
              /\ \A direction \in Directions :
                     TreeSplit(paneId, direction) => paneRoot' = paneRoot
              /\ TreeClose(paneId) => paneRoot' = paneRoot]_vars
\* C27: after a manual scroll (Home, PageUp, PageDown), after 'f', and after
\* a typed filter is confirmed with Enter, isPaused is true.
C27_FreezeEngaged ==
    [][/\ (\E direction \in {"home", "pageup", "pagedown"} : KeyScroll(direction))
          => isPaused'
       /\ KeyF => isPaused'
       /\ (FilterEnter /\ FocusedFilter # <<>>) => isPaused']_vars

\* every tracked child's streams are flowing
StreamsResumed ==
    \A n \in Names : processRefs[n] # 0 => procs[processRefs[n]].flowing

\* C28: after Escape in Normal mode, after Escape in filter mode and after
\* scrolling to End, isPaused is false and the tracked streams are resumed.
C28_FreezeCleared ==
    [][(KeyEscape \/ FilterEscape \/ KeyScroll("end"))
       => (~isPaused' /\ StreamsResumed')]_vars

\* C29: every action of the running phase that changes a persisted field of
\* the pane tree leaves config.paneLayout equal to serializePaneTree(paneRoot).
C29_LayoutSaved ==
    [][(phase = "running"
            /\ serializePaneTree(paneRoot') # serializePaneTree(paneRoot))
       => paneLayout' = serializePaneTree(paneRoot')]_vars

\* C25: when a supervised child that was sent no signal exits, the command's
\* status becomes 'exited' for code 0 and 'crashed' for any other code, the
\* code is recorded as exitCode, and exactly one line is added to the log:
\* "Process exited with code <code>" with the command as its source.
C25_ExitRecorded ==
    [][\A pid \in 1..Len(procs), code \in ExitCodes :
          (ProcExit(pid, code) /\ procs[pid].sig = "none") =>
              LET n == procs[pid].name
                  added == outputLines'[Len(outputLines')]
              IN /\ processes'[n].status =
                        (IF code = "0" THEN "exited" ELSE "crashed")
                 /\ processes'[n].exitCode = code
                 /\ totalLinesReceived' = totalLinesReceived + 1
                 /\ added.process = n
                 /\ added.text = <<"Process exited with code ", code>>
                 /\ added.lineNumber = totalLinesReceived']_vars

\* a command whose child ended by itself with a non-zero code, just reported
C25_Witness ==
    \E n \in Names :
        /\ processes[n].status = "crashed" /\ processes[n].exitCode = "1"
        /\ processRefs[n] # 0 /\ procs[processRefs[n]].sig = "none"
        /\ outputLines # <<>>
        /\ outputLines[Len(outputLines)] =
               [process |-> n, text |-> <<"Process exited with code ", "1">>,
                lineNumber |-> totalLinesReceived]

\* the keys of a shortcut table that run a given command
KeysOf(table, scriptName) ==
    {table[i].key : i \in {j \in 1..Len(table) : table[j].script = scriptName}}

OneToOne(table) ==
    \A i, j \in 1..Len(table) :
        i # j => table[i].key # table[j].key /\ table[i].script # table[j].script

\* C22: a shortcut table in which every key has one command and every
\* command at most one key keeps that shape under every assignment and
\* deletion; after key k is assigned to command c, k runs c, c has no other
\* key, and the command that owned k before has no key left.
C22_ShortcutsOneToOne ==
    [][OneToOne(shortcuts) =>
          /\ OneToOne(shortcuts')
          /\ \A k \in ShortcutKeys :
                 ShortcutAssign(k) =>
                     LET c == shortcutScriptName
                         owner == ShortcutOf(shortcuts, k)
                     IN /\ ShortcutOf(shortcuts', k) = c
                        /\ KeysOf(shortcuts', c) = {k}
                        /\ (owner # "" /\ owner # c) =>
                               KeysOf(shortcuts', owner) = {}]_vars

\* both keys have been assigned, 'q' last, each to a command of its own
C22_Witness ==
    /\ phase = "settings" /\ ~isAssigningShortcut
    /\ shortcuts = <<[key |-> "z", script |-> "web"],
                     [key |-> "q", script |-> "api"]>>

\* C23: a key that the settings screen stored as the shortcut of a command
\* runs that command as a one-off when it is pressed in Normal mode: the
\* overlay opens for that command.
C23_AssignedKeyRuns ==
    [][\A k \in ShortcutKeys :
          (NormalKey(k) /\ ShortcutOf(shortcuts, k) \in Names) =>
              /\ showCommandOverlay'
              /\ commandOverlayScript' = ShortcutOf(shortcuts, k)]_vars

\* C24: in Normal mode a key that no built-in command takes and that the
\* shortcut table maps to a command of the full manifest can be pressed with
\* the effect of executeCommand for that command, hidden or not; a key mapped
\* to a name that no manifest entry has changes nothing.
C24_ResolvedAgainstManifest ==
    \A k \in ShortcutKeys :
        LET c == ShortcutOf(shortcuts, k)
        IN (NormalMode /\ CanSpawn /\ ~TakenByCommand(k) /\ c # "") =>
               IF c \in Names
               THEN ENABLED (/\ KeyShortcut(k)
                             /\ showCommandOverlay'
                             /\ commandOverlayScript' = c
                             /\ commandOverlayStatus' = "running"
                             /\ procs' = Append(procs, Spawned(c, "oneoff")))
               ELSE ~ENABLED (KeyShortcut(k) /\ vars' # vars)

\* the overlay runs a command that the ignore list hides, started by its key
C24_Witness ==
    /\ phase = "running" /\ showCommandOverlay
    /\ commandOverlayScript = "api" /\ ~IsVisible("api")
    /\ ShortcutOf(shortcuts, "z") = "api"
    /\ commandOverlayProcess = Len(procs)

\* Normal mode with a key saved for a script that the manifest no longer has
C24_WitnessUnknown ==
    /\ NormalMode /\ CanSpawn
    /\ ShortcutOf(shortcuts, "z") = "gone"

\* C26: when the spawn of a command fails, the command's RunState is
\* 'crashed' without a pid, and no 'error' event is left without a listener
\* to end the program.
C26_SpawnFailureCrashed ==
    [][/\ KeySSpawnFails =>
              /\ processes'[ScriptAt(selectedIndex)].status = "crashed"
              /\ processes'[ScriptAt(selectedIndex)].pid = 0
       /\ \A pid \in 1..Len(procs) : SpawnErrorEvent(pid) => ~nodeExited']_vars

\* what a command would change: the phase, the teardown, the processes and
\* their handles, the children, the panes of the tree, the menus, the overlay
CommandState ==
    <<phase, destroyed, nodeExited, processes, processRefs, procs,
      restartTimers, getAllPaneIds(paneRoot), focusedPaneId, paneLayout,
      showRunCommandModal, showSplitMenu, overlayVars, outputLines>>

\* C21: while a capture mode is active (text filter, pane naming, stdin
\* input, add pattern, assign shortcut) a printable key triggers no command:
\* nothing quits, no process is stopped, started or restarted, no pane is
\* split or closed, no modal or overlay opens. The key is added to the
\* captured text, or becomes the shortcut; the capture mode stays as it is
\* except that an assignment ends the assign mode.
C21_CaptureTakesKeys ==
    [][\A k \in PrintableKeys :
          (CaptureFlags # {} /\ PrintableKey(k)) =>
              /\ CommandState' = CommandState
              /\ \/ isInputMode /\ inputModeText' = Append(inputModeText, k)
                 \/ isNamingMode /\ namingModeText' = Append(namingModeText, k)
                 \/ isFilterMode /\ FocusedFilter' = Append(FocusedFilter, k)
                 \/ isAddingPattern /\ newPatternText' = Append(newPatternText, k)
                 \/ isAssigningShortcut /\ ShortcutOf(shortcuts', k) = shortcutScriptName
              /\ CaptureFlags' = CaptureFlags \ {"shortcut"}]_vars

\* 'q' typed into the filter of a pane while a process runs
C21_Witness ==
    /\ phase = "running" /\ isFilterMode /\ ~destroyed
    /\ FocusedFilter = <<"q">>
    /\ \E n \in Names : processes[n].status = "running"

\* every split below node has two children or more and one size per child
RECURSIVE SplitsWellFormed(_)
SplitsWellFormed(node) ==
    node.type = "split" =>
        /\ Len(node.children) >= 2
        /\ Len(node.sizes) = Len(node.children)
        /\ \A i \in 1..Len(node.children) : SplitsWellFormed(node.children[i])

\* C31: after any sequence of splitPane and closePane calls on a tree grown
\* from one pane, every split node has at least two children and as many
\* sizes as children.
C31_SplitsWellFormed == SplitsWellFormed(paneRoot)

\* a third pane was made and closed again: the split is left with the
\* first two panes
C31_Witness ==
    /\ paneRoot.type = "split"
    /\ Len(paneRoot.children) = 2
    /\ getAllPaneIds(paneRoot) = <<1, 2>>
    /\ paneIdCounter = 3

\* the sizes of every split below node add up to the number of its children
RECURSIVE SizesSumToCount(_)
SizesSumToCount(node) ==
    node.type = "split" =>
        /\ FracSum(node.sizes) = Frac(Len(node.children), 1)
        /\ \A i \in 1..Len(node.children) : SizesSumToCount(node.children[i])

\* C32: after every split, flattened into a same-direction parent or not,
\* and after every close, the sizes of every split node sum to the number of
\* its children.
C32_SizesNormalized == SizesSumToCount(paneRoot)

\* C38: after any sequence of splitPane and closePane calls on a tree grown
\* from one pane, closes included, no split node has a direct child that is a
\* split of the same direction.
C38_NoNestingAfterClose ==
    paneRoot.type = "split" =>
        \A i \in 1..Len(paneRoot.children) :
            /\ paneRoot.children[i].type = "split"
                   => paneRoot.children[i].direction # paneRoot.direction
            /\ NoSameDirectionChild(paneRoot.children[i])

\* C39: throughout the running phase focusedPaneId is the id of a pane of
\* the pane tree.
C39_FocusInTree == phase = "running" => InTree(focusedPaneId)

\* C34: startup from a saved layout that lacks optional fields (a pane
\* without name, processes, hidden, filter or colorFilter, a split without
\* sizes or children) never throws: the running phase begins with a pane
\* tree and the program has not ended.
C34_StartupTolerant ==
    [][(phase = "selection" /\ phase' = "running") =>
          (paneRoot'.type # "null" /\ ~nodeExited')]_vars

\* the log after the 'data' handler of a child has taken the chunks in order
RECURSIVE LogAfterChunks(_, _, _)
LogAfterChunks(log, processName, chunks) ==
    IF chunks = <<>> THEN log
    ELSE LogAfterChunks(addOutputLines(log, processName, ChunkLines(Head(chunks))),
                        processName, Tail(chunks))

\* C33: the log lines made from a child's output do not depend on how its
\* bytes are cut into data chunks: delivering the bytes of a \o b as the two
\* chunks a and b leaves the same log as delivering them as one chunk.
C33_ChunkingIrrelevant ==
    \A pid \in 1..Len(procs) :
        (procs[pid].kind = "main" /\ procs[pid].state = "live") =>
            \A a, b \in Chunks :
                LogAfterChunks(CurLog, procs[pid].name, <<a, b>>)
                    = LogAfterChunks(CurLog, procs[pid].name, <<a \o b>>)

\* C36: whenever a command has a tracked process that has not exited, its
\* status is 'running'; the exit event of an earlier instance of the command
\* does not change the status recorded for the newer live instance.
C36_TrackedLiveIsRunning ==
    \A n \in Names :
        (processRefs[n] # 0 /\ procs[processRefs[n]].state = "live")
            => processes[n].status = "running"

\* the one-off child pid was cancelled and a later one-off run is alive
CancelledBeforeLater(pid) ==
    /\ procs[pid].kind = "oneoff"
    /\ commandOverlayProcess # 0
    /\ pid < commandOverlayProcess
    /\ procs[commandOverlayProcess].state = "live"

\* C37: the data and exit events of a one-off process that was cancelled by
\* closing the overlay never modify a later one-off run: they append nothing
\* to its overlay output, leave its status alone and do not clear
\* commandOverlayProcess while the later process is alive.
C37_CancelledRunIsolated ==
    [][\A pid \in 1..Len(procs) :
          (/\ CancelledBeforeLater(pid)
           /\ \/ \E chunk \in OverlayChunks : OverlayData(pid, chunk)
              \/ \E code \in ExitCodes : OverlayExit(pid, code))
          => UNCHANGED <<commandOverlayOutput, commandOverlayStatus,
                         commandOverlayProcess>>]_vars

\* C40: the selection set holds names of visible scripts only, so at the
\* transition to the running phase every selected name gets a spawned
\* process and the status 'running'.
C40_SelectionSpawned ==
    [][/\ \A n \in selectedScripts' : \E i \in 1..Len(scripts') : scripts'[i] = n
       /\ (phase = "selection" /\ phase' = "running") =>
              \A n \in selectedScripts :
                  /\ processes'[n].status = "running"
                  /\ processRefs'[n] # 0]_vars

\* C35: in the running phase the lines in each pane's scroll box are in log
\* order with no line shown twice, and while the screen is not frozen they
\* are exactly the lines of getOutputLinesForPane(pane)
C35_BoxShowsPaneLines ==
    phase = "running" /\ ~nodeExited =>
        \A id \in DOMAIN paneScrollBoxes :
            LET shown == paneScrollBoxes[id]
            IN /\ \A i, j \in 1..Len(shown) : i < j => shown[i] < shown[j]
               /\ ~isPaused => shown = PaneLineNumbers(paneRoot, id, outputLines)

====
